---- MODULE Spec2Model ----
(***************************************************************************)
(* Conflict analysis and ranking engine of langgraph-resource-manager.     *)
(*                                                                         *)
(* The shared AgentState is a Python dict: it is modelled as a function    *)
(* from key names to values whose DOMAIN is the set of keys present, so    *)
(* that state.get(key, default) and {**state, key: value} keep their       *)
(* meaning for a key that is missing.                                      *)
(*                                                                         *)
(* Numbers.  Dates are day numbers, day 0 being a Monday.  Hours are       *)
(* exact rationals held as integer ticks (TicksPerHour ticks to the hour), *)
(* so that total_work_hours / business_days is exact for every range of   *)
(* the inputs (1 to 5, 20 and 21 business days, or hours that are a        *)
(* multiple of the business days).  Scores and weights are hundredths.     *)
(* round(x, n) is round-half-even on the exact value.                      *)
(***************************************************************************)
EXTENDS Integers, Sequences, FiniteSets, TLC

VARIABLES
    node,          \* per execution id: the graph node about to run
    state,         \* per execution id: the AgentState of the thread
    entry,         \* per execution id: entry point of the invocation in flight
    fb_input,      \* per execution id: the Feedback handed to the feedback node
    results,       \* result sink: the context save_results persisted
    fb_store,      \* feedback sink: the records save_feedback persisted
    response,      \* per execution id: the FeedbackResponses returned so far
    source,        \* data source: what fetch_project_data returns to each run
    active,        \* the execution ids that clients use in this behaviour
    visited,       \* history: nodes run in the invocation in flight
    loopbacks,     \* history: adjust_weights -> detect transitions of the thread
    prompt,        \* per execution id: the conflicts of the last prompt sent
    gen_failed,    \* history: the generator call of the invocation failed
    errs_before,   \* history: errors of the context when generate was entered
    n_invokes,     \* history: feedback invocations of the execution id
    caller_ctx     \* per execution id: the dict handed to the last stage
                   \* function (agents 1 to 4), as the caller finds it once
                   \* the function has returned

vars == <<node, state, entry, fb_input, results, fb_store, response, source,
          active, visited, loopbacks, prompt, gen_failed, errs_before, n_invokes,
          caller_ctx>>

(***************************************************************************)
(* Bounds of the model.                                                    *)
(***************************************************************************)
MaxFeedback == 4
MaxSubmit == 1
MaxMultiFeedback == 1
MaxAssignments == 3
MaxSolutions == 3
MaxDay == 8
MaxPromptDay == 16

(***************************************************************************)
(* Program constants.                                                      *)
(***************************************************************************)
MaxIterations == 3
MaxPromptConflicts == 10
TicksPerHour == 3 * 4 * 5 * 7

ExecIds == {"e1", "e2"}
None == [none |-> TRUE]

Min(a, b) == IF a < b THEN a ELSE b

\* round(n / d) to the nearest integer, ties to the even one (Python's round)
RoundHalfEven(n, d) ==
    LET q == n \div d
        r == n % d
    IN  IF 2 * r < d THEN q
        ELSE IF 2 * r > d THEN q + 1
        ELSE IF q % 2 = 0 THEN q ELSE q + 1

\* state.get(key, default)
Get(st, key, default) == IF key \in DOMAIN st THEN st[key] ELSE default

\* {**st, **upd}
Merge(st, upd) == upd @@ st

(***************************************************************************)
(* str.lower() and str.strip() on an email held as a sequence of           *)
(* characters.                                                             *)
(***************************************************************************)
LowerChar(c) == CASE c = "A" -> "a" [] c = "B" -> "b" [] OTHER -> c

lower(s) == [i \in DOMAIN s |-> LowerChar(s[i])]

RECURSIVE lstrip(_)
lstrip(s) == IF s # <<>> /\ Head(s) = " " THEN lstrip(Tail(s)) ELSE s

RECURSIVE rstrip(_)
rstrip(s) ==
    IF s # <<>> /\ s[Len(s)] = " " THEN rstrip(SubSeq(s, 1, Len(s) - 1)) ELSE s

strip(s) == rstrip(lstrip(s))

\* mutant: the key is trimmed but not lower-cased
email_key_case_sensitive(resource) == strip(resource.email)

email_key(resource) == strip(lower(resource.email))

(***************************************************************************)
(* Weights and create_initial_state.                                       *)
(***************************************************************************)
Weights == [feasibility |-> 30, impact |-> 25, deadline |-> 25, simplicity |-> 20]

create_initial_state(execution_id) ==
    [execution_id |-> execution_id,
     stage |-> "initialization",
     iterations |-> 0,
     consolidated_resources |-> <<>>,
     conflicts |-> <<>>,
     solutions |-> <<>>,
     ranked_solutions |-> <<>>,
     weights |-> Weights,
     feedback_history |-> <<>>,
     patterns |-> {},
     should_continue |-> TRUE,
     trigger_pattern_analysis |-> FALSE,
     timestamps |-> {},
     errors |-> <<>>]

(***************************************************************************)
(* Agent 1: consolidator.                                                  *)
(***************************************************************************)
HasKey(map, key) == \E i \in DOMAIN map : map[i].email = key

\* first loop: one ConsolidatedResource per normalized email, first seen wins;
\* the map is held in insertion order, as a Python dict is
RECURSIVE build_resource_map(_, _)
build_resource_map(resources, map) ==
    IF resources = <<>> THEN map
    ELSE LET resource == Head(resources)
             key == email_key(resource)
         IN  build_resource_map(
                 Tail(resources),
                 IF HasKey(map, key) THEN map
                 ELSE Append(map, [id |-> resource.id,
                                   name |-> resource.name,
                                   email |-> key,
                                   capacity |-> resource.max_capacity_hours_per_day,
                                   assignments |-> <<>>]))

\* next((r for r in resources if r.id == resource_id), None): the index of the
\* first raw resource with that id, 0 standing for None
find_resource(resources, resource_id) ==
    IF \E i \in DOMAIN resources : resources[i].id = resource_id
    THEN CHOOSE i \in DOMAIN resources :
             /\ resources[i].id = resource_id
             /\ \A j \in 1..(i - 1) : resources[j].id # resource_id
    ELSE 0

\* mutant: an assignment of an unknown resource goes to the first entry
RECURSIVE aggregate_assignments_keeps_unknown(_, _, _)
aggregate_assignments_keeps_unknown(assignments, resources, map) ==
    IF assignments = <<>> THEN map
    ELSE LET assignment == Head(assignments)
             r == find_resource(resources, assignment.resource_id)
         IN  aggregate_assignments_keeps_unknown(
                 Tail(assignments), resources,
                 [i \in DOMAIN map |->
                     IF (r = 0 /\ i = 1)
                        \/ (r # 0 /\ map[i].email = email_key(resources[r]))
                     THEN [map[i] EXCEPT !.assignments = Append(@, assignment)]
                     ELSE map[i]])

\* second loop: append each assignment to the entry of its resource's email;
\* an assignment of an unknown resource is logged and skipped
RECURSIVE aggregate_assignments(_, _, _)
aggregate_assignments(assignments, resources, map) ==
    IF assignments = <<>> THEN map
    ELSE LET assignment == Head(assignments)
             r == find_resource(resources, assignment.resource_id)
         IN  aggregate_assignments(
                 Tail(assignments), resources,
                 IF r = 0 THEN map
                 ELSE [i \in DOMAIN map |->
                          IF map[i].email = email_key(resources[r])
                          THEN [map[i] EXCEPT !.assignments = Append(@, assignment)]
                          ELSE map[i]])

\* mutant: the map starts from the consolidated resources already in the state
consolidator_agent_accumulates(st) ==
    LET resources == Get(st, "resources", <<>>)
        assignments == Get(st, "assignments", <<>>)
        consolidated ==
            aggregate_assignments(
                assignments, resources,
                build_resource_map(resources,
                                   Get(st, "consolidated_resources", <<>>)))
    IN  Merge(st, [consolidated_resources |-> consolidated,
                   stage |-> "consolidation_complete",
                   timestamps |-> Get(st, "timestamps", {})
                                     \cup {"consolidation_complete"}])

consolidator_agent(st) ==
    LET resources == Get(st, "resources", <<>>)
        assignments == Get(st, "assignments", <<>>)
        consolidated ==
            aggregate_assignments(assignments, resources,
                                  build_resource_map(resources, <<>>))
    IN  Merge(st, [consolidated_resources |-> consolidated,
                   stage |-> "consolidation_complete",
                   timestamps |-> Get(st, "timestamps", {})
                                     \cup {"consolidation_complete"}])

(***************************************************************************)
(* list.sort(key=...): the stable sort of seq by ascending key, keys being *)
(* tuples of integers compared lexicographically.                          *)
(***************************************************************************)
RECURSIVE KeyLess(_, _)
KeyLess(k1, k2) ==
    IF k1 = <<>> \/ k2 = <<>> THEN k1 = <<>> /\ k2 # <<>>
    ELSE IF Head(k1) # Head(k2) THEN Head(k1) < Head(k2)
    ELSE KeyLess(Tail(k1), Tail(k2))

\* mutant: a sort that is not stable (equal keys come out in reverse)
sort_by_unstable(seq, keys) ==
    LET n == Len(seq)
        before(j, i) == KeyLess(keys[j], keys[i]) \/ (keys[j] = keys[i] /\ j > i)
        place(i) == 1 + Cardinality({j \in 1..n : before(j, i)})
    IN  [p \in 1..n |-> seq[CHOOSE i \in 1..n : place(i) = p]]

sort_by(seq, keys) ==
    LET n == Len(seq)
        before(j, i) == KeyLess(keys[j], keys[i]) \/ (keys[j] = keys[i] /\ j < i)
        place(i) == 1 + Cardinality({j \in 1..n : before(j, i)})
    IN  [p \in 1..n |-> seq[CHOOSE i \in 1..n : place(i) = p]]

(***************************************************************************)
(* Agent 2: detector.                                                      *)
(***************************************************************************)
\* date.weekday(): 0 = Monday .. 6 = Sunday
weekday(d) == d % 7

\* mutant: every calendar day of the range counted, weekends included
get_business_days_calendar(start_date, end_date) ==
    IF start_date > end_date THEN 0
    ELSE end_date - start_date + 1

\* mutant: "while current < end_date", the last day of the range not counted
get_business_days_exclusive(start_date, end_date) ==
    IF start_date > end_date THEN 0
    ELSE Cardinality({d \in start_date..(end_date - 1) : weekday(d) < 5})

get_business_days(start_date, end_date) ==
    IF start_date > end_date THEN 0
    ELSE Cardinality({d \in start_date..end_date : weekday(d) < 5})

\* mutant: <= in place of <, the boundary values falling to the lower tier
classify_severity_le(num, den) ==
    IF num <= 25 * den THEN "LOW"
    ELSE IF num <= 50 * den THEN "MEDIUM"
    ELSE IF num <= 100 * den THEN "HIGH"
    ELSE "CRITICAL"

\* the percentage num / den, a rational, against the tier thresholds
classify_severity(num, den) ==
    IF num < 25 * den THEN "LOW"
    ELSE IF num < 50 * den THEN "MEDIUM"
    ELSE IF num < 100 * den THEN "HIGH"
    ELSE "CRITICAL"

severity_order(severity) ==
    CASE severity = "CRITICAL" -> 4
      [] severity = "HIGH" -> 3
      [] severity = "MEDIUM" -> 2
      [] severity = "LOW" -> 1

DayIndex(daily, d) ==
    IF \E i \in DOMAIN daily : daily[i].date = d
    THEN CHOOSE i \in DOMAIN daily : daily[i].date = d
    ELSE 0

\* the while loop over current_date of one assignment: daily_allocation is held
\* in insertion order of its date keys; a date that is not in it yet is
\* initialized, and the task is added to the day
RECURSIVE distribute(_, _, _, _)
distribute(daily, assignment, hours_per_day, current_date) ==
    IF current_date > assignment.end_date THEN daily
    ELSE IF weekday(current_date) >= 5
    THEN distribute(daily, assignment, hours_per_day, current_date + 1)
    ELSE IF DayIndex(daily, current_date) = 0
    THEN distribute(Append(daily,
                           [date |-> current_date,
                            tasks |-> <<[project_id |-> assignment.project_id,
                                         task_id |-> assignment.task_id,
                                         hours |-> hours_per_day]>>,
                            total_hours |-> hours_per_day]),
                    assignment, hours_per_day, current_date + 1)
    ELSE distribute([daily EXCEPT ![DayIndex(daily, current_date)] =
                        [date |-> @.date,
                         tasks |-> Append(@.tasks,
                                          [project_id |-> assignment.project_id,
                                           task_id |-> assignment.task_id,
                                           hours |-> hours_per_day]),
                         total_hours |-> @.total_hours + hours_per_day]],
                    assignment, hours_per_day, current_date + 1)

\* the loop over resource.assignments; an assignment without business days is
\* logged and skipped
RECURSIVE daily_allocation(_, _)
daily_allocation(assignments, daily) ==
    IF assignments = <<>> THEN daily
    ELSE LET assignment == Head(assignments)
             business_days ==
                 get_business_days(assignment.start_date, assignment.end_date)
         IN  daily_allocation(
                 Tail(assignments),
                 IF business_days = 0 THEN daily
                 ELSE distribute(
                          daily, assignment,
                          (assignment.total_work_hours * TicksPerHour)
                              \div business_days,
                          assignment.start_date))

make_conflict(resource, day) ==
    LET capacity == resource.capacity * TicksPerHour
        overallocation_hours == day.total_hours - capacity
    IN  [resource_id |-> resource.id,
         resource_name |-> resource.name,
         conflict_date |-> day.date,
         allocated_hours |-> RoundHalfEven(day.total_hours * 100, TicksPerHour),
         capacity_hours |-> resource.capacity,
         overallocation_hours |->
             RoundHalfEven(overallocation_hours * 100, TicksPerHour),
         overallocation_percent |->
             RoundHalfEven(overallocation_hours * 1000, capacity),
         severity |-> classify_severity(overallocation_hours * 100, capacity),
         tasks_involved |-> day.tasks,
         projects_count |->
             Cardinality({day.tasks[i].project_id : i \in DOMAIN day.tasks})]

\* "for date_key, day in daily_allocation.items(): if total > capacity"
RECURSIVE day_conflicts(_, _)
day_conflicts(resource, daily) ==
    IF daily = <<>> THEN <<>>
    ELSE (IF Head(daily).total_hours > resource.capacity * TicksPerHour
          THEN <<make_conflict(resource, Head(daily))>>
          ELSE <<>>)
         \o day_conflicts(resource, Tail(daily))

RECURSIVE detect_conflicts(_)
detect_conflicts(consolidated_resources) ==
    IF consolidated_resources = <<>> THEN <<>>
    ELSE LET resource == Head(consolidated_resources)
         IN  day_conflicts(resource, daily_allocation(resource.assignments, <<>>))
             \o detect_conflicts(Tail(consolidated_resources))

sort_conflicts(conflicts) ==
    sort_by(conflicts,
            [i \in DOMAIN conflicts |->
                <<0 - severity_order(conflicts[i].severity),
                  0 - conflicts[i].overallocation_percent>>])

\* mutant: a detect pass that also clears the results of the earlier ranking
detector_agent_clears_solutions(st) ==
    LET conflicts ==
            sort_conflicts(detect_conflicts(Get(st, "consolidated_resources", <<>>)))
        critical_conflicts ==
            Cardinality({i \in DOMAIN conflicts : conflicts[i].severity = "CRITICAL"})
    IN  Merge(st, [conflicts |-> conflicts,
                   total_conflicts |-> Len(conflicts),
                   critical_conflicts |-> critical_conflicts,
                   solutions |-> <<>>,
                   total_solutions |-> 0,
                   ranked_solutions |-> <<>>,
                   stage |-> "detection_complete",
                   timestamps |-> Get(st, "timestamps", {})
                                     \cup {"detection_complete"}])

\* mutant: critical_conflicts counts every conflict above LOW
detector_agent_counts_above_low(st) ==
    LET conflicts ==
            sort_conflicts(detect_conflicts(Get(st, "consolidated_resources", <<>>)))
        critical_conflicts ==
            Cardinality({i \in DOMAIN conflicts : conflicts[i].severity # "LOW"})
    IN  Merge(st, [conflicts |-> conflicts,
                   total_conflicts |-> Len(conflicts),
                   critical_conflicts |-> critical_conflicts,
                   stage |-> "detection_complete",
                   timestamps |-> Get(st, "timestamps", {})
                                     \cup {"detection_complete"}])

detector_agent(st) ==
    LET conflicts ==
            sort_conflicts(detect_conflicts(Get(st, "consolidated_resources", <<>>)))
        critical_conflicts ==
            Cardinality({i \in DOMAIN conflicts : conflicts[i].severity = "CRITICAL"})
    IN  Merge(st, [conflicts |-> conflicts,
                   total_conflicts |-> Len(conflicts),
                   critical_conflicts |-> critical_conflicts,
                   stage |-> "detection_complete",
                   timestamps |-> Get(st, "timestamps", {})
                                     \cup {"detection_complete"}])

(***************************************************************************)
(* Agent 3: generator.  outcome is what the external call and the parsing  *)
(* of its response come to: the Solution list parsed from a well-formed    *)
(* response, or an exception raised inside the try block (the API call     *)
(* failing, json.loads or the Solution validation rejecting the response). *)
(***************************************************************************)
\* mutant: conflicts[-max_conflicts:], the last conflicts of the list
build_prompt_tail(conflicts, max_conflicts) ==
    SubSeq(conflicts, Len(conflicts) - Min(max_conflicts, Len(conflicts)) + 1,
           Len(conflicts))

build_prompt(conflicts, max_conflicts) ==
    SubSeq(conflicts, 1, Min(max_conflicts, Len(conflicts)))

failure_message(outcome) ==
    CASE outcome.kind = "api_error" -> "Generation failed: api error"
      [] outcome.kind = "malformed" -> "Generation failed: malformed response"

\* mutant: the except branch records the failure and leaves solutions as found
generator_agent_keeps_solutions(st, outcome) ==
    IF Get(st, "conflicts", <<>>) = <<>>
    THEN Merge(st, [solutions |-> <<>>,
                    total_solutions |-> 0,
                    stage |-> "generation_complete",
                    errors |-> Append(Get(st, "errors", <<>>),
                                      "No conflicts to generate solutions")])
    ELSE IF outcome.kind = "ok"
    THEN Merge(st, [solutions |-> outcome.solutions,
                    total_solutions |-> Len(outcome.solutions),
                    stage |-> "generation_complete",
                    timestamps |-> Get(st, "timestamps", {})
                                      \cup {"generation_complete"}])
    ELSE Merge(st, [stage |-> "generation_failed",
                    errors |-> Append(Get(st, "errors", <<>>),
                                      failure_message(outcome))])

\* mutant: the except branch starts a new errors list with its message
generator_agent_resets_errors(st, outcome) ==
    IF Get(st, "conflicts", <<>>) = <<>>
    THEN Merge(st, [solutions |-> <<>>,
                    total_solutions |-> 0,
                    stage |-> "generation_complete",
                    errors |-> Append(Get(st, "errors", <<>>),
                                      "No conflicts to generate solutions")])
    ELSE IF outcome.kind = "ok"
    THEN Merge(st, [solutions |-> outcome.solutions,
                    total_solutions |-> Len(outcome.solutions),
                    stage |-> "generation_complete",
                    timestamps |-> Get(st, "timestamps", {})
                                      \cup {"generation_complete"}])
    ELSE Merge(st, [solutions |-> <<>>,
                    total_solutions |-> 0,
                    stage |-> "generation_failed",
                    errors |-> <<failure_message(outcome)>>])

generator_agent(st, outcome) ==
    IF Get(st, "conflicts", <<>>) = <<>>
    THEN Merge(st, [solutions |-> <<>>,
                    total_solutions |-> 0,
                    stage |-> "generation_complete",
                    errors |-> Append(Get(st, "errors", <<>>),
                                      "No conflicts to generate solutions")])
    ELSE IF outcome.kind = "ok"
    THEN Merge(st, [solutions |-> outcome.solutions,
                    total_solutions |-> Len(outcome.solutions),
                    stage |-> "generation_complete",
                    timestamps |-> Get(st, "timestamps", {})
                                      \cup {"generation_complete"}])
    ELSE Merge(st, [solutions |-> <<>>,
                    total_solutions |-> 0,
                    stage |-> "generation_failed",
                    errors |-> Append(Get(st, "errors", <<>>),
                                      failure_message(outcome))])

(***************************************************************************)
(* Agent 4: ranker.  Scores are thousandths.                               *)
(***************************************************************************)
\* mutant: simplicity taken as 1 + complexity_score
calculate_rank_score_sign(solution, weights) ==
    LET feasibility_score == solution.feasibility_score
        impact_score == 100 - solution.complexity_score
        deadline_score == IF solution.preserves_deadline THEN 100 ELSE 30
        simplicity_score == 100 + solution.complexity_score
    IN  RoundHalfEven(feasibility_score * weights.feasibility
                        + impact_score * weights.impact
                        + deadline_score * weights.deadline
                        + simplicity_score * weights.simplicity,
                      10)

\* mutant: a deadline score of 0.5 for a solution that misses the deadline
calculate_rank_score_deadline_half(solution, weights) ==
    LET feasibility_score == solution.feasibility_score
        impact_score == 100 - solution.complexity_score
        deadline_score == IF solution.preserves_deadline THEN 100 ELSE 50
        simplicity_score == 100 - solution.complexity_score
    IN  RoundHalfEven(feasibility_score * weights.feasibility
                        + impact_score * weights.impact
                        + deadline_score * weights.deadline
                        + simplicity_score * weights.simplicity,
                      10)

calculate_rank_score(solution, weights) ==
    LET feasibility_score == solution.feasibility_score
        impact_score == 100 - solution.complexity_score
        deadline_score == IF solution.preserves_deadline THEN 100 ELSE 30
        simplicity_score == 100 - solution.complexity_score
    IN  RoundHalfEven(feasibility_score * weights.feasibility
                        + impact_score * weights.impact
                        + deadline_score * weights.deadline
                        + simplicity_score * weights.simplicity,
                      10)

\* mutant: weights=Weights().dict(), the default weights stored with every score
ranked_solution_default_weights(solution, weights) ==
    [conflict_id |-> solution.conflict_id,
     strategy |-> solution.strategy,
     feasibility_score |-> solution.feasibility_score,
     complexity_score |-> solution.complexity_score,
     preserves_deadline |-> solution.preserves_deadline,
     rank_score |-> calculate_rank_score(solution, weights),
     weights |-> Weights]

\* RankedSolution(**solution.dict(), rank_score=..., weights=weights.dict())
ranked_solution(solution, weights) ==
    [conflict_id |-> solution.conflict_id,
     strategy |-> solution.strategy,
     feasibility_score |-> solution.feasibility_score,
     complexity_score |-> solution.complexity_score,
     preserves_deadline |-> solution.preserves_deadline,
     rank_score |-> calculate_rank_score(solution, weights),
     weights |-> weights]

\* RankedSolution.rank_score is Field(ge=0.0, le=1.0): the constructor raises
\* a ValidationError for a score outside it, which ranker_agent does not catch
ranker_raises(st) ==
    LET solutions == Get(st, "solutions", <<>>)
        weights == Get(st, "weights", Weights)
    IN  \E i \in DOMAIN solutions :
            LET score == calculate_rank_score(solutions[i], weights)
            IN  score < 0 \/ score > 1000

\* mutant: the early return for an empty solution list leaves stage as found
ranker_agent_early_return_keeps_stage(st) ==
    LET solutions == Get(st, "solutions", <<>>)
        weights == Get(st, "weights", Weights)
        ranked == [i \in DOMAIN solutions |-> ranked_solution(solutions[i], weights)]
    IN  IF solutions = <<>>
        THEN Merge(st, [ranked_solutions |-> <<>>])
        ELSE Merge(st, [ranked_solutions |->
                            sort_by(ranked, [i \in DOMAIN ranked |->
                                                <<0 - ranked[i].rank_score>>]),
                        stage |-> "ranking_complete",
                        timestamps |-> Get(st, "timestamps", {})
                                          \cup {"ranking_complete"}])

\* mutant: sorted ascending and then reversed, equal scores coming out in
\* reverse input order
ranker_agent_sorted_then_reversed(st) ==
    LET solutions == Get(st, "solutions", <<>>)
        weights == Get(st, "weights", Weights)
        ranked == [i \in DOMAIN solutions |-> ranked_solution(solutions[i], weights)]
        ascending == sort_by(ranked, [i \in DOMAIN ranked |-> <<ranked[i].rank_score>>])
    IN  IF solutions = <<>>
        THEN Merge(st, [ranked_solutions |-> <<>>,
                        stage |-> "ranking_complete"])
        ELSE Merge(st, [ranked_solutions |->
                            [p \in DOMAIN ascending |->
                                ascending[Len(ascending) + 1 - p]],
                        stage |-> "ranking_complete",
                        timestamps |-> Get(st, "timestamps", {})
                                          \cup {"ranking_complete"}])

\* mutant: solutions whose rank score is 0 are left out of the ranking
ranker_agent_drops_zero_scores(st) ==
    LET solutions == Get(st, "solutions", <<>>)
        weights == Get(st, "weights", Weights)
        Scored(r) == r.rank_score > 0
        ranked == SelectSeq([i \in DOMAIN solutions |->
                                ranked_solution(solutions[i], weights)], Scored)
    IN  IF solutions = <<>>
        THEN Merge(st, [ranked_solutions |-> <<>>,
                        stage |-> "ranking_complete"])
        ELSE Merge(st, [ranked_solutions |->
                            sort_by(ranked, [i \in DOMAIN ranked |->
                                                <<0 - ranked[i].rank_score>>]),
                        stage |-> "ranking_complete",
                        timestamps |-> Get(st, "timestamps", {})
                                          \cup {"ranking_complete"}])

ranker_agent(st) ==
    LET solutions == Get(st, "solutions", <<>>)
        weights == Get(st, "weights", Weights)
        ranked == [i \in DOMAIN solutions |-> ranked_solution(solutions[i], weights)]
    IN  IF solutions = <<>>
        THEN Merge(st, [ranked_solutions |-> <<>>,
                        stage |-> "ranking_complete"])
        ELSE Merge(st, [ranked_solutions |->
                            sort_by(ranked, [i \in DOMAIN ranked |->
                                                <<0 - ranked[i].rank_score>>]),
                        stage |-> "ranking_complete",
                        timestamps |-> Get(st, "timestamps", {})
                                          \cup {"ranking_complete"}])

(***************************************************************************)
(* Agents 6, 7, 8 (agents/learning.py): feedback intake, pattern analysis  *)
(* and weight adjustment.  The adjustment strategy is pluggable: its       *)
(* result is any weight vector of WeightChoices; it raises the trigger     *)
(* when the vector differs from the current one and otherwise either       *)
(* leaves the trigger as it is or clears it.                               *)
(***************************************************************************)
feedback_agent(st, feedback) ==
    Merge(st, [feedback_history |->
                   Append(Get(st, "feedback_history", <<>>), feedback),
               stage |-> "feedback_received"])

pattern_analyzer_agent(st) ==
    Merge(st, [patterns |-> Get(st, "patterns", {}) \cup {"analyzed"},
               stage |-> "patterns_analyzed"])

weight_adjuster_agent(st, new_weights, clear) ==
    LET weights == Get(st, "weights", Weights)
    IN  IF new_weights # weights
        THEN Merge(st, [weights |-> new_weights,
                        trigger_pattern_analysis |-> TRUE,
                        stage |-> "weights_adjusted"])
        ELSE IF clear
        THEN Merge(st, [weights |-> new_weights,
                        trigger_pattern_analysis |-> FALSE,
                        stage |-> "weights_adjusted"])
        ELSE Merge(st, [weights |-> new_weights,
                        stage |-> "weights_adjusted"])

(***************************************************************************)
(* workflow.py: the routing functions and the edges of the graph.          *)
(***************************************************************************)
\* mutant: len(conflicts) >= 0
should_generate_solutions_ge(st) ==
    IF Len(Get(st, "conflicts", <<>>)) >= 0 THEN "generate" ELSE "end"

\* mutant: the two branches swapped
should_generate_solutions_swapped(st) ==
    IF Len(Get(st, "conflicts", <<>>)) > 0 THEN "end" ELSE "generate"

should_generate_solutions(st) ==
    IF Len(Get(st, "conflicts", <<>>)) > 0 THEN "generate" ELSE "end"

\* mutant: iterations <= 3
should_continue_iteration_le(st) ==
    LET iterations == Get(st, "iterations", 0)
        trigger == Get(st, "trigger_pattern_analysis", FALSE)
    IN  IF iterations <= MaxIterations /\ trigger THEN "detect" ELSE "end"

should_continue_iteration(st) ==
    LET iterations == Get(st, "iterations", 0)
        trigger == Get(st, "trigger_pattern_analysis", FALSE)
    IN  IF iterations < MaxIterations /\ trigger THEN "detect" ELSE "end"

\* mutant: add_edge("rank", "detect") in place of add_edge("rank", END)
workflow_edge_rank_to_detect(n, st) ==
    CASE n = "consolidate" -> "detect"
      [] n = "detect" ->
             (IF Len(Get(st, "conflicts", <<>>)) > 0 THEN "generate" ELSE "END")
      [] n = "generate" -> "rank"
      [] n = "rank" -> "detect"
      [] n = "feedback" -> "analyze_patterns"
      [] n = "analyze_patterns" -> "adjust_weights"
      [] n = "adjust_weights" ->
             (IF Get(st, "iterations", 0) < MaxIterations
                 /\ Get(st, "trigger_pattern_analysis", FALSE)
              THEN "detect" ELSE "END")

\* mutant: add_edge("rank", "adjust_weights") in place of add_edge("rank", END)
workflow_edge_rank_to_adjust(n, st) ==
    CASE n = "consolidate" -> "detect"
      [] n = "detect" ->
             (IF Len(Get(st, "conflicts", <<>>)) > 0 THEN "generate" ELSE "END")
      [] n = "generate" -> "rank"
      [] n = "rank" -> "adjust_weights"
      [] n = "feedback" -> "analyze_patterns"
      [] n = "analyze_patterns" -> "adjust_weights"
      [] n = "adjust_weights" ->
             (IF Get(st, "iterations", 0) < MaxIterations
                 /\ Get(st, "trigger_pattern_analysis", FALSE)
              THEN "detect" ELSE "END")

\* create_workflow: the node that follows node n, st being the state n returned
workflow_edge(n, st) ==
    CASE n = "consolidate" -> "detect"
      [] n = "detect" ->
             (IF should_generate_solutions(st) = "generate"
              THEN "generate" ELSE "END")
      [] n = "generate" -> "rank"
      [] n = "rank" -> "END"
      [] n = "feedback" -> "analyze_patterns"
      [] n = "analyze_patterns" -> "adjust_weights"
      [] n = "adjust_weights" ->
             (IF should_continue_iteration(st) = "detect"
              THEN "detect" ELSE "END")

(***************************************************************************)
(* api.py: the effectiveness of a feedback, in hundredths.                 *)
(***************************************************************************)
calculate_effectiveness(accepted, rating, result) ==
    IF accepted /\ result = "success" THEN (rating * 100) \div 5
    ELSE IF accepted /\ result = "partial" THEN (rating * 100 * 7) \div (5 * 10)
    ELSE 0

make_feedback(request) ==
    [solution_id |-> request.solution_id,
     accepted |-> request.accepted,
     manager_rating |-> request.manager_rating,
     implementation_result |-> request.implementation_result,
     effectiveness_score |->
         calculate_effectiveness(request.accepted, request.manager_rating,
                                 request.implementation_result)]

(***************************************************************************)
(* Inputs.                                                                 *)
(***************************************************************************)
R1 == [id |-> "res-1", name |-> "Joao Silva", email |-> <<"a">>,
       max_capacity_hours_per_day |-> 8]
R2 == [id |-> "res-2", name |-> "Joao S.", email |-> <<" ", "A">>,
       max_capacity_hours_per_day |-> 6]
R3 == [id |-> "res-3", name |-> "Ana", email |-> <<"b", " ">>,
       max_capacity_hours_per_day |-> 8]

Asn(id, project_id, resource_id, task_id, start_date, end_date, hours) ==
    [id |-> id, project_id |-> project_id, resource_id |-> resource_id,
     task_id |-> task_id, start_date |-> start_date, end_date |-> end_date,
     total_work_hours |-> hours]

\* Monday to Friday at 8 h a day
A1 == Asn("asn-1", "proj-1", "res-1", "task-1", 0, 4, 40)
\* Wednesday to Friday at 8 h a day, same person
A2 == Asn("asn-2", "proj-2", "res-1", "task-2", 2, 4, 24)
\* the same, under the duplicate record of that person
A3 == Asn("asn-3", "proj-2", "res-2", "task-3", 2, 4, 24)
\* Thursday to Sunday: two business days at 5 h a day
A4 == Asn("asn-4", "proj-2", "res-1", "task-4", 3, 6, 10)
\* a weekend only
A5 == Asn("asn-5", "proj-1", "res-3", "task-5", 5, 6, 8)
\* an unknown resource
A6 == Asn("asn-6", "proj-1", "res-9", "task-6", 0, 0, 8)

\* Monday to Wednesday at 3 1/3 h a day
A7 == Asn("asn-7", "proj-2", "res-1", "task-7", 0, 2, 10)
\* one day each: 10 h on Monday, 12 h on Tuesday, 16 h on Wednesday and on Monday
A8 == Asn("asn-8", "proj-2", "res-1", "task-8", 0, 0, 10)
A9 == Asn("asn-9", "proj-1", "res-1", "task-9", 1, 1, 12)
A10 == Asn("asn-10", "proj-2", "res-1", "task-10", 2, 2, 16)
A11 == Asn("asn-11", "proj-1", "res-1", "task-11", 0, 0, 16)

CoreData ==
    { [resources |-> <<>>, assignments |-> <<>>],
      [resources |-> <<R1>>, assignments |-> <<A1>>],
      [resources |-> <<R1>>, assignments |-> <<A1, A2>>],
      [resources |-> <<R1, R2>>, assignments |-> <<A1, A3>>],
      [resources |-> <<R1, R3>>, assignments |-> <<A1, A4, A5, A6>>] }

S1 == [conflict_id |-> "res-1-2", strategy |-> "REDISTRIBUTE_WITH_SLACK",
       feasibility_score |-> 90, complexity_score |-> 20,
       preserves_deadline |-> TRUE]
S2 == [conflict_id |-> "res-1-2", strategy |-> "ADD_RESOURCE",
       feasibility_score |-> 40, complexity_score |-> 90,
       preserves_deadline |-> TRUE]
S3 == [conflict_id |-> "res-1-3", strategy |-> "MOVE_NONCRITICAL",
       feasibility_score |-> 90, complexity_score |-> 20,
       preserves_deadline |-> TRUE]

SolutionLists == { <<>>, <<S2, S1, S3>> }

GenOutcomes ==
    { [kind |-> "ok", solutions |-> sl] : sl \in SolutionLists }
    \cup { [kind |-> k, solutions |-> <<>>] : k \in {"api_error", "malformed"} }

WeightChoices ==
    { Weights,
      [feasibility |-> 40, impact |-> 20, deadline |-> 20, simplicity |-> 20],
      [feasibility |-> 50, impact |-> 30, deadline |-> 30, simplicity |-> 20] }

\* the feedback POST /feedback is called with
FeedbackRequests ==
    { [solution_id |-> "sol-1", accepted |-> TRUE, manager_rating |-> 4,
       implementation_result |-> "success"] }

\* the feedback a cycle is started with
CycleRequests ==
    { [solution_id |-> "sol-1", accepted |-> TRUE, manager_rating |-> 3,
       implementation_result |-> "partial"] }

\* the AgentState a caller hands to a feedback cycle that resumes nothing:
\* AgentState is a TypedDict(total=False), so keys may be missing
FreshStates(e) ==
    { [create_initial_state(e) EXCEPT !.iterations = i] : i \in 0..MaxIterations }
    \cup { [execution_id |-> e] }

Nodes == {"consolidate", "detect", "generate", "rank",
          "feedback", "analyze_patterns", "adjust_weights"}

NoState == <<>>

HasState(st) == DOMAIN st # {}

Last(seq) == seq[Len(seq)]

(***************************************************************************)
(* The state machine.                                                      *)
(***************************************************************************)
Init ==
    /\ active = {"e1"}
    /\ source \in {[e \in ExecIds |-> d] : d \in CoreData}
    /\ node = [e \in ExecIds |-> "idle"]
    /\ state = [e \in ExecIds |-> NoState]
    /\ entry = [e \in ExecIds |-> "none"]
    /\ fb_input = [e \in ExecIds |-> None]
    /\ results = [e \in ExecIds |-> NoState]
    /\ fb_store = <<>>
    /\ response = [e \in ExecIds |-> <<>>]
    /\ visited = [e \in ExecIds |-> <<>>]
    /\ prompt = [e \in ExecIds |-> <<>>]
    /\ loopbacks = [e \in ExecIds |-> 0]
    /\ gen_failed = [e \in ExecIds |-> FALSE]
    /\ errs_before = [e \in ExecIds |-> <<>>]
    /\ n_invokes = [e \in ExecIds |-> 0]
    /\ caller_ctx = [e \in ExecIds |-> NoState]

\* the nodes that are stage functions of the analysis pipeline
StageNodes == {"consolidate", "detect", "generate", "rank"}

\* mutant: a node that updates the dict it was given in place
\* (state.update(...); return state)
argument_after_updated_in_place(n, st, ret) == ret

\* what the caller's dict holds once node n, called on st, has returned ret:
\* every node builds its result as a new dict, {**state, ...}, builds the lists
\* it stores from new lists ([*state.get("errors", []), message]), and appends
\* only to lists it created in the call (resource_map[...].assignments,
\* day["tasks"], conflicts, ranked_solutions), never to one reached from state
argument_after(n, st, ret) == st

\* mutant: one module-level context shared by every run
Advance_shared_context(e, n, st) ==
    /\ state' = [x \in ExecIds |-> IF HasState(state[x]) \/ x = e THEN st ELSE state[x]]
    /\ node' = [node EXCEPT ![e] = workflow_edge(n, st)]
    /\ visited' = [visited EXCEPT ![e] = Append(@, n)]
    /\ caller_ctx' = [caller_ctx EXCEPT ![e] =
                         IF n \in StageNodes THEN argument_after(n, state[e], st)
                         ELSE NoState]
    /\ loopbacks' = [loopbacks EXCEPT ![e] =
                        IF n = "adjust_weights" /\ workflow_edge(n, st) = "detect"
                        THEN @ + 1 ELSE @]

\* a node n of the graph has run on the thread of e and returned st
Advance(e, n, st) ==
    /\ state' = [state EXCEPT ![e] = st]
    /\ node' = [node EXCEPT ![e] = workflow_edge(n, st)]
    /\ visited' = [visited EXCEPT ![e] = Append(@, n)]
    /\ caller_ctx' = [caller_ctx EXCEPT ![e] =
                         IF n \in StageNodes THEN argument_after(n, state[e], st)
                         ELSE NoState]
    /\ loopbacks' = [loopbacks EXCEPT ![e] =
                        IF n = "adjust_weights" /\ workflow_edge(n, st) = "detect"
                        THEN @ + 1 ELSE @]

\* POST /analyze up to the start of the graph: run_analysis builds the initial
\* state, fetches the project data and invokes the graph at its entry point
run_analysis(e) ==
    /\ e \in active
    /\ node[e] = "idle"
    /\ state' = [state EXCEPT ![e] =
                    Merge(create_initial_state(e),
                          [resources |-> source[e].resources,
                           assignments |-> source[e].assignments])]
    /\ node' = [node EXCEPT ![e] = "consolidate"]
    /\ entry' = [entry EXCEPT ![e] = "consolidate"]
    /\ UNCHANGED <<caller_ctx, prompt, fb_input, results, fb_store, response, source, active,
                   visited, loopbacks, gen_failed, errs_before, n_invokes>>

Consolidate(e) ==
    /\ node[e] = "consolidate"
    /\ Advance(e, "consolidate", consolidator_agent(state[e]))
    /\ UNCHANGED <<prompt, entry, fb_input, results, fb_store, response, source, active,
                   gen_failed, errs_before, n_invokes>>

Detect(e) ==
    /\ node[e] = "detect"
    /\ Advance(e, "detect", detector_agent(state[e]))
    /\ UNCHANGED <<prompt, entry, fb_input, results, fb_store, response, source, active,
                   gen_failed, errs_before, n_invokes>>

Generate(e) ==
    /\ node[e] = "generate"
    /\ \E outcome \in GenOutcomes :
          /\ Advance(e, "generate", generator_agent(state[e], outcome))
          /\ gen_failed' = [gen_failed EXCEPT ![e] =
                               /\ Get(state[e], "conflicts", <<>>) # <<>>
                               /\ outcome.kind # "ok"]
    /\ prompt' = [prompt EXCEPT ![e] =
                     IF Get(state[e], "conflicts", <<>>) = <<>> THEN @
                     ELSE build_prompt(state[e].conflicts, MaxPromptConflicts)]
    /\ errs_before' = [errs_before EXCEPT ![e] = Get(state[e], "errors", <<>>)]
    /\ UNCHANGED <<entry, fb_input, results, fb_store, response, source, active,
                   n_invokes>>

\* an exception that leaves ranker_agent ends the invocation: the thread keeps
\* the state of the last node that returned
Rank(e) ==
    /\ node[e] = "rank"
    /\ IF ranker_raises(state[e])
       THEN /\ node' = [node EXCEPT ![e] = "failed"]
            /\ visited' = [visited EXCEPT ![e] = Append(@, "rank")]
            /\ UNCHANGED <<state, loopbacks, caller_ctx>>
       ELSE Advance(e, "rank", ranker_agent(state[e]))
    /\ UNCHANGED <<prompt, entry, fb_input, results, fb_store, response, source, active,
                   gen_failed, errs_before, n_invokes>>

Feedback(e) ==
    /\ node[e] = "feedback"
    /\ Advance(e, "feedback", feedback_agent(state[e], fb_input[e]))
    /\ UNCHANGED <<prompt, entry, fb_input, results, fb_store, response, source, active,
                   gen_failed, errs_before, n_invokes>>

AnalyzePatterns(e) ==
    /\ node[e] = "analyze_patterns"
    /\ Advance(e, "analyze_patterns", pattern_analyzer_agent(state[e]))
    /\ UNCHANGED <<prompt, entry, fb_input, results, fb_store, response, source, active,
                   gen_failed, errs_before, n_invokes>>

AdjustWeights(e) ==
    /\ node[e] = "adjust_weights"
    /\ \E new_weights \in WeightChoices, clear \in BOOLEAN :
          Advance(e, "adjust_weights",
                  weight_adjuster_agent(state[e], new_weights, clear))
    /\ UNCHANGED <<prompt, entry, fb_input, results, fb_store, response, source, active,
                   gen_failed, errs_before, n_invokes>>

\* POST /analyze after the graph has ended: save_results(result)
analyze_resources_save(e) ==
    /\ node[e] = "END"
    /\ entry[e] = "consolidate"
    /\ results' = [results EXCEPT ![e] = state[e]]
    /\ entry' = [entry EXCEPT ![e] = "none"]
    /\ UNCHANGED <<caller_ctx, prompt, node, state, fb_input, fb_store, response, source, active,
                   visited, loopbacks, gen_failed, errs_before, n_invokes>>

\* the graph invoked at its feedback node ("Loop de Feedback (separado)",
\* "executado via invoke separado"): on the checkpointed state of the thread,
\* or on a state the caller built when the thread has none
invoke_feedback(e) ==
    /\ e \in active
    /\ entry[e] = "none"
    /\ node[e] \in {"idle", "END"}
    /\ n_invokes[e] < MaxFeedback
    /\ \E request \in CycleRequests :
          fb_input' = [fb_input EXCEPT ![e] = make_feedback(request)]
    /\ IF node[e] = "idle"
       THEN \E st \in FreshStates(e) : state' = [state EXCEPT ![e] = st]
       ELSE UNCHANGED state
    /\ node' = [node EXCEPT ![e] = "feedback"]
    /\ entry' = [entry EXCEPT ![e] = "feedback"]
    /\ visited' = [visited EXCEPT ![e] = <<>>]
    /\ gen_failed' = [gen_failed EXCEPT ![e] = FALSE]
    /\ errs_before' = [errs_before EXCEPT ![e] = <<>>]
    /\ n_invokes' = [n_invokes EXCEPT ![e] = @ + 1]
    /\ UNCHANGED <<caller_ctx, prompt, results, fb_store, response, source, active, loopbacks>>

\* the invocation started at the feedback node returns its final state
feedback_cycle_end(e) ==
    /\ node[e] = "END"
    /\ entry[e] = "feedback"
    /\ entry' = [entry EXCEPT ![e] = "none"]
    /\ UNCHANGED <<caller_ctx, prompt, node, state, fb_input, results, fb_store, response, source,
                   active, visited, loopbacks, gen_failed, errs_before, n_invokes>>

\* POST /feedback: the record is saved, a graph is compiled over a new, empty
\* MemorySaver, nothing is loaded and nothing is run.  The handler shares no
\* variable with the nodes of the graph, so it commutes with them: it is taken
\* between the invocations of the execution id only
submit_feedback(e) ==
    /\ e \in active
    /\ entry[e] = "none"
    /\ Len(fb_store) < MaxSubmit
    /\ \E request \in FeedbackRequests :
          fb_store' = Append(fb_store, make_feedback(request))
    /\ response' = [response EXCEPT ![e] =
                       Append(@, [success |-> TRUE, continued |-> FALSE])]
    /\ UNCHANGED <<caller_ctx, prompt, node, state, entry, fb_input, results, source, active,
                   visited, loopbacks, gen_failed, errs_before, n_invokes>>

Next ==
    \E e \in ExecIds :
        \/ run_analysis(e)
        \/ Consolidate(e)
        \/ Detect(e)
        \/ Generate(e)
        \/ Rank(e)
        \/ Feedback(e)
        \/ AnalyzePatterns(e)
        \/ AdjustWeights(e)
        \/ analyze_resources_save(e)
        \/ invoke_feedback(e)
        \/ feedback_cycle_end(e)
        \/ submit_feedback(e)

Spec == Init /\ [][Next]_vars

(***************************************************************************)
(* The first two stages on a wide range of project data: every list of at  *)
(* most MaxAssignments assignments of the pool, the same record more than  *)
(* once included, against resource lists with and without duplicate        *)
(* persons.                                                                *)
(***************************************************************************)
ResourceLists ==
    { <<>>, <<R1>>, <<R1, R2>>, <<R2, R1>>, <<R1, R3>>, <<R1, R1>>,
      <<R3, R2, R1>> }

AssignmentPool == {A1, A3, A5, A6, A7, A8, A9, A10, A11}

AssignmentLists == UNION { [1..k -> AssignmentPool] : k \in 0..MaxAssignments }

DataSets ==
    { [resources |-> r, assignments |-> a] :
          r \in ResourceLists, a \in AssignmentLists }

InitData ==
    /\ active = {"e1"}
    /\ source \in {[e \in ExecIds |-> d] : d \in DataSets}
    /\ node = [e \in ExecIds |-> "idle"]
    /\ state = [e \in ExecIds |-> NoState]
    /\ entry = [e \in ExecIds |-> "none"]
    /\ fb_input = [e \in ExecIds |-> None]
    /\ results = [e \in ExecIds |-> NoState]
    /\ fb_store = <<>>
    /\ response = [e \in ExecIds |-> <<>>]
    /\ visited = [e \in ExecIds |-> <<>>]
    /\ prompt = [e \in ExecIds |-> <<>>]
    /\ loopbacks = [e \in ExecIds |-> 0]
    /\ gen_failed = [e \in ExecIds |-> FALSE]
    /\ errs_before = [e \in ExecIds |-> <<>>]
    /\ n_invokes = [e \in ExecIds |-> 0]
    /\ caller_ctx = [e \in ExecIds |-> NoState]

NextData ==
    \E e \in ExecIds :
        \/ run_analysis(e)
        \/ Consolidate(e)
        \/ Detect(e)

SpecData == InitData /\ [][NextData]_vars

(***************************************************************************)
(* The ranker on a wide range of solutions and learned weights: a run that *)
(* a feedback cycle has sent back through detect and generate stands at    *)
(* rank with one solution of RankSolutions and the weights the cycle       *)
(* left, any vector of WeightVectors.  Scores and weights are hundredths.  *)
(***************************************************************************)
Scores == {0, 25, 50, 100}

RankSolutions ==
    { [conflict_id |-> "res-1-2", strategy |-> "EXTEND_DURATION",
       feasibility_score |-> f, complexity_score |-> c, preserves_deadline |-> p] :
          f \in Scores, c \in Scores, p \in BOOLEAN }

WeightParts == {0, 10, 20, 25, 30, 40, 50, 100}

\* four non-negative coefficients summing to 1.0
WeightVectors ==
    { w \in [feasibility : WeightParts, impact : WeightParts,
              deadline : WeightParts, simplicity : WeightParts] :
          w.feasibility + w.impact + w.deadline + w.simplicity = 100 }

RankContext(e, solution, weights) ==
    Merge(generator_agent(
              detector_agent(consolidator_agent(
                  Merge(create_initial_state(e),
                        [resources |-> <<R1>>, assignments |-> <<A1, A2>>]))),
              [kind |-> "ok", solutions |-> <<solution>>]),
          [weights |-> weights, trigger_pattern_analysis |-> TRUE])

InitRank ==
    /\ active = {"e1"}
    /\ source = [e \in ExecIds |-> [resources |-> <<R1>>, assignments |-> <<A1, A2>>]]
    /\ node = [e \in ExecIds |-> IF e = "e1" THEN "rank" ELSE "idle"]
    /\ \E solution \in RankSolutions, weights \in WeightVectors :
          state = [e \in ExecIds |->
                      IF e = "e1" THEN RankContext(e, solution, weights)
                      ELSE NoState]
    /\ entry = [e \in ExecIds |-> IF e = "e1" THEN "feedback" ELSE "none"]
    /\ fb_input = [e \in ExecIds |-> None]
    /\ results = [e \in ExecIds |-> NoState]
    /\ fb_store = <<>>
    /\ response = [e \in ExecIds |-> <<>>]
    /\ visited = [e \in ExecIds |->
                     IF e = "e1"
                     THEN <<"feedback", "analyze_patterns", "adjust_weights",
                            "detect", "generate">>
                     ELSE <<>>]
    /\ prompt = [e \in ExecIds |-> <<>>]
    /\ loopbacks = [e \in ExecIds |-> IF e = "e1" THEN 1 ELSE 0]
    /\ gen_failed = [e \in ExecIds |-> FALSE]
    /\ errs_before = [e \in ExecIds |-> <<>>]
    /\ n_invokes = [e \in ExecIds |-> IF e = "e1" THEN 1 ELSE 0]
    /\ caller_ctx = [e \in ExecIds |-> NoState]

NextRank ==
    \E e \in ExecIds :
        \/ Rank(e)
        \/ feedback_cycle_end(e)

SpecRank == InitRank /\ [][NextRank]_vars

(***************************************************************************)
(* The ranker on lists of solutions: the same run stands at rank with any  *)
(* list of at most MaxSolutions solutions of OrderPool, solutions with     *)
(* equal scores and the same solution more than once included, under       *)
(* weights that sum to 1.0, to less and to more.                           *)
(***************************************************************************)
\* ties with S1 under the default weights only
S4 == [conflict_id |-> "res-1-3", strategy |-> "EXTEND_DURATION",
       feasibility_score |-> 60, complexity_score |-> 0,
       preserves_deadline |-> TRUE]
S5 == [conflict_id |-> "res-1-4", strategy |-> "ADD_RESOURCE",
       feasibility_score |-> 100, complexity_score |-> 0,
       preserves_deadline |-> FALSE]

OrderPool == {S1, S2, S3, S4, S5}

OrderLists == UNION { [1..k -> OrderPool] : k \in 0..MaxSolutions }

\* Weights has four unconstrained float fields
OrderWeights ==
    { Weights,
      [feasibility |-> 40, impact |-> 20, deadline |-> 20, simplicity |-> 20],
      [feasibility |-> 50, impact |-> 30, deadline |-> 30, simplicity |-> 20],
      [feasibility |-> 10, impact |-> 10, deadline |-> 10, simplicity |-> 10],
      [feasibility |-> 100, impact |-> 0, deadline |-> 0, simplicity |-> 0],
      [feasibility |-> 0, impact |-> 0, deadline |-> 0, simplicity |-> 0] }

OrderContext(e, solutions, weights) ==
    Merge(generator_agent(
              detector_agent(consolidator_agent(
                  Merge(create_initial_state(e),
                        [resources |-> <<R1>>, assignments |-> <<A1, A2>>]))),
              [kind |-> "ok", solutions |-> solutions]),
          [weights |-> weights, trigger_pattern_analysis |-> TRUE])

InitOrder ==
    /\ active = {"e1"}
    /\ source = [e \in ExecIds |-> [resources |-> <<R1>>, assignments |-> <<A1, A2>>]]
    /\ node = [e \in ExecIds |-> IF e = "e1" THEN "rank" ELSE "idle"]
    /\ \E solutions \in OrderLists, weights \in OrderWeights :
          state = [e \in ExecIds |->
                      IF e = "e1" THEN OrderContext(e, solutions, weights)
                      ELSE NoState]
    /\ entry = [e \in ExecIds |-> IF e = "e1" THEN "feedback" ELSE "none"]
    /\ fb_input = [e \in ExecIds |-> None]
    /\ results = [e \in ExecIds |-> NoState]
    /\ fb_store = <<>>
    /\ response = [e \in ExecIds |-> <<>>]
    /\ visited = [e \in ExecIds |->
                     IF e = "e1"
                     THEN <<"feedback", "analyze_patterns", "adjust_weights",
                            "detect", "generate">>
                     ELSE <<>>]
    /\ prompt = [e \in ExecIds |-> <<>>]
    /\ loopbacks = [e \in ExecIds |-> IF e = "e1" THEN 1 ELSE 0]
    /\ gen_failed = [e \in ExecIds |-> FALSE]
    /\ errs_before = [e \in ExecIds |-> <<>>]
    /\ n_invokes = [e \in ExecIds |-> IF e = "e1" THEN 1 ELSE 0]
    /\ caller_ctx = [e \in ExecIds |-> NoState]

NextOrder ==
    \E e \in ExecIds :
        \/ Rank(e)
        \/ feedback_cycle_end(e)

SpecOrder == InitOrder /\ [][NextOrder]_vars

(***************************************************************************)
(* The first two stages on one resource with two assignments, the range of *)
(* the second inside the range of the first, each at the resource's        *)
(* capacity on every weekday of its range; the calendar runs from a Monday *)
(* (day 0) to day MaxDay.                                                  *)
(***************************************************************************)
Capacities == {4, 6, 8}

OverlapResource(c) ==
    [id |-> "res-1", name |-> "Joao Silva", email |-> <<"a">>,
     max_capacity_hours_per_day |-> c]

\* an assignment of c hours on every business day of start_date..end_date
FullLoad(id, project_id, task_id, start_date, end_date, c) ==
    Asn(id, project_id, "res-1", task_id, start_date, end_date,
        c * Cardinality({d \in start_date..end_date : d % 7 \notin {5, 6}}))

OverlapData ==
    { [resources |-> <<OverlapResource(c)>>,
       assignments |->
           IF outer_first
           THEN <<FullLoad("asn-1", "proj-1", "task-1", s1, e1, c),
                  FullLoad("asn-2", "proj-2", "task-2", s2, e2, c)>>
           ELSE <<FullLoad("asn-2", "proj-2", "task-2", s2, e2, c),
                  FullLoad("asn-1", "proj-1", "task-1", s1, e1, c)>>] :
          c \in Capacities, outer_first \in BOOLEAN,
          <<s1, s2, e2, e1>> \in
              { q \in (0..MaxDay) \X (0..MaxDay) \X (0..MaxDay) \X (0..MaxDay) :
                    q[1] <= q[2] /\ q[2] <= q[3] /\ q[3] <= q[4] } }

InitOverlap ==
    /\ active = {"e1"}
    /\ source \in {[e \in ExecIds |-> d] : d \in OverlapData}
    /\ node = [e \in ExecIds |-> "idle"]
    /\ state = [e \in ExecIds |-> NoState]
    /\ entry = [e \in ExecIds |-> "none"]
    /\ fb_input = [e \in ExecIds |-> None]
    /\ results = [e \in ExecIds |-> NoState]
    /\ fb_store = <<>>
    /\ response = [e \in ExecIds |-> <<>>]
    /\ visited = [e \in ExecIds |-> <<>>]
    /\ prompt = [e \in ExecIds |-> <<>>]
    /\ loopbacks = [e \in ExecIds |-> 0]
    /\ gen_failed = [e \in ExecIds |-> FALSE]
    /\ errs_before = [e \in ExecIds |-> <<>>]
    /\ n_invokes = [e \in ExecIds |-> 0]
    /\ caller_ctx = [e \in ExecIds |-> NoState]

NextOverlap ==
    \E e \in ExecIds :
        \/ run_analysis(e)
        \/ Consolidate(e)
        \/ Detect(e)

SpecOverlap == InitOverlap /\ [][NextOverlap]_vars

(***************************************************************************)
(* The first two stages on assignments that run over four weeks: one       *)
(* resource, every list of at most MaxAssignments assignments of           *)
(* MonthPool.                                                              *)
(***************************************************************************)
\* 19 h over the 20 weekdays of four weeks, and 190 h over those and the
\* Monday after: 0.95 h and 9.0476... h a day
A12 == Asn("asn-12", "proj-1", "res-1", "task-12", 0, 25, 19)
A13 == Asn("asn-13", "proj-2", "res-1", "task-13", 0, 28, 190)

MonthPool == {A1, A8, A10, A12, A13}

MonthData ==
    { [resources |-> <<R1>>, assignments |-> a] :
          a \in UNION { [1..k -> MonthPool] : k \in 0..MaxAssignments } }

InitMonth ==
    /\ active = {"e1"}
    /\ source \in {[e \in ExecIds |-> d] : d \in MonthData}
    /\ node = [e \in ExecIds |-> "idle"]
    /\ state = [e \in ExecIds |-> NoState]
    /\ entry = [e \in ExecIds |-> "none"]
    /\ fb_input = [e \in ExecIds |-> None]
    /\ results = [e \in ExecIds |-> NoState]
    /\ fb_store = <<>>
    /\ response = [e \in ExecIds |-> <<>>]
    /\ visited = [e \in ExecIds |-> <<>>]
    /\ prompt = [e \in ExecIds |-> <<>>]
    /\ loopbacks = [e \in ExecIds |-> 0]
    /\ gen_failed = [e \in ExecIds |-> FALSE]
    /\ errs_before = [e \in ExecIds |-> <<>>]
    /\ n_invokes = [e \in ExecIds |-> 0]
    /\ caller_ctx = [e \in ExecIds |-> NoState]

NextMonth ==
    \E e \in ExecIds :
        \/ run_analysis(e)
        \/ Consolidate(e)
        \/ Detect(e)

SpecMonth == InitMonth /\ [][NextMonth]_vars

(***************************************************************************)
(* POST /analyze on one resource that is loaded to its capacity on every   *)
(* weekday of a calendar from a Monday (day 0) to day MaxPromptDay, with a *)
(* second assignment on any range of that calendar and, optionally, a      *)
(* third on one late day: detect passes that find from no conflict to more *)
(* conflicts than one prompt takes.                                        *)
(***************************************************************************)
\* hours a day of the second assignment: 25 % and 100 % over the capacity
PromptLoads == {2, 8}

PromptData ==
    { [resources |-> <<R1>>,
       assignments |->
           <<FullLoad("asn-1", "proj-1", "task-1", 0, MaxPromptDay, 8),
             FullLoad("asn-2", "proj-2", "task-2", s2, e2, h)>>
           \o (IF late
               THEN <<FullLoad("asn-3", "proj-2", "task-3",
                               MaxPromptDay - 1, MaxPromptDay - 1, 8)>>
               ELSE <<>>)] :
          h \in PromptLoads, late \in BOOLEAN,
          <<s2, e2>> \in { q \in (0..MaxPromptDay) \X (0..MaxPromptDay) :
                              q[1] <= q[2] } }

InitPrompt ==
    /\ active = {"e1"}
    /\ source \in {[e \in ExecIds |-> d] : d \in PromptData}
    /\ node = [e \in ExecIds |-> "idle"]
    /\ state = [e \in ExecIds |-> NoState]
    /\ entry = [e \in ExecIds |-> "none"]
    /\ fb_input = [e \in ExecIds |-> None]
    /\ results = [e \in ExecIds |-> NoState]
    /\ fb_store = <<>>
    /\ response = [e \in ExecIds |-> <<>>]
    /\ visited = [e \in ExecIds |-> <<>>]
    /\ prompt = [e \in ExecIds |-> <<>>]
    /\ loopbacks = [e \in ExecIds |-> 0]
    /\ gen_failed = [e \in ExecIds |-> FALSE]
    /\ errs_before = [e \in ExecIds |-> <<>>]
    /\ n_invokes = [e \in ExecIds |-> 0]
    /\ caller_ctx = [e \in ExecIds |-> NoState]

NextPrompt ==
    \E e \in ExecIds :
        \/ run_analysis(e)
        \/ Consolidate(e)
        \/ Detect(e)
        \/ Generate(e)
        \/ Rank(e)
        \/ analyze_resources_save(e)

SpecPrompt == InitPrompt /\ [][NextPrompt]_vars

(***************************************************************************)
(* The first two stages on assignments whose ranges end in, lie in or run  *)
(* over a weekend, or run backwards: one resource, every list of at most   *)
(* MaxAssignments assignments of SpreadPool.                               *)
(***************************************************************************)
\* start_date after end_date
A14 == Asn("asn-14", "proj-1", "res-1", "task-14", 4, 2, 24)
\* a Saturday and a Sunday
A15 == Asn("asn-15", "proj-2", "res-1", "task-15", 5, 6, 8)
\* Thursday to the Tuesday after: four business days at 10 h a day
A16 == Asn("asn-16", "proj-2", "res-1", "task-16", 3, 8, 40)

SpreadPool == {A1, A4, A7, A14, A15, A16}

SpreadData ==
    { [resources |-> <<R1>>, assignments |-> a] :
          a \in UNION { [1..k -> SpreadPool] : k \in 0..MaxAssignments } }

InitSpread ==
    /\ active = {"e1"}
    /\ source \in {[e \in ExecIds |-> d] : d \in SpreadData}
    /\ node = [e \in ExecIds |-> "idle"]
    /\ state = [e \in ExecIds |-> NoState]
    /\ entry = [e \in ExecIds |-> "none"]
    /\ fb_input = [e \in ExecIds |-> None]
    /\ results = [e \in ExecIds |-> NoState]
    /\ fb_store = <<>>
    /\ response = [e \in ExecIds |-> <<>>]
    /\ visited = [e \in ExecIds |-> <<>>]
    /\ prompt = [e \in ExecIds |-> <<>>]
    /\ loopbacks = [e \in ExecIds |-> 0]
    /\ gen_failed = [e \in ExecIds |-> FALSE]
    /\ errs_before = [e \in ExecIds |-> <<>>]
    /\ n_invokes = [e \in ExecIds |-> 0]
    /\ caller_ctx = [e \in ExecIds |-> NoState]

NextSpread ==
    \E e \in ExecIds :
        \/ run_analysis(e)
        \/ Consolidate(e)
        \/ Detect(e)

SpecSpread == InitSpread /\ [][NextSpread]_vars

(***************************************************************************)
(* Several execution ids at once: each POST /analyze runs run_analysis    *)
(* with its own initial state, checkpointer and compiled graph, the nodes  *)
(* of the runs interleaving at every await; finished runs are resumed by   *)
(* at most MaxMultiFeedback feedback cycles in all.                        *)
(***************************************************************************)
MultiData ==
    { [resources |-> <<>>, assignments |-> <<>>],
      [resources |-> <<R1>>, assignments |-> <<A1, A2>>],
      [resources |-> <<R1, R3>>, assignments |-> <<A1, A4, A5, A6>>] }

InitMulti ==
    /\ active = ExecIds
    /\ source \in [ExecIds -> MultiData]
    /\ node = [e \in ExecIds |-> "idle"]
    /\ state = [e \in ExecIds |-> NoState]
    /\ entry = [e \in ExecIds |-> "none"]
    /\ fb_input = [e \in ExecIds |-> None]
    /\ results = [e \in ExecIds |-> NoState]
    /\ fb_store = <<>>
    /\ response = [e \in ExecIds |-> <<>>]
    /\ visited = [e \in ExecIds |-> <<>>]
    /\ prompt = [e \in ExecIds |-> <<>>]
    /\ loopbacks = [e \in ExecIds |-> 0]
    /\ gen_failed = [e \in ExecIds |-> FALSE]
    /\ errs_before = [e \in ExecIds |-> <<>>]
    /\ n_invokes = [e \in ExecIds |-> 0]
    /\ caller_ctx = [e \in ExecIds |-> NoState]

\* a feedback cycle on the checkpointed state of a run that has ended
resume_feedback(e) ==
    /\ node[e] = "END"
    /\ n_invokes["e1"] + n_invokes["e2"] < MaxMultiFeedback
    /\ invoke_feedback(e)

NextMulti ==
    \E e \in ExecIds :
        \/ run_analysis(e)
        \/ Consolidate(e)
        \/ Detect(e)
        \/ Generate(e)
        \/ Rank(e)
        \/ analyze_resources_save(e)
        \/ resume_feedback(e)
        \/ Feedback(e)
        \/ AnalyzePatterns(e)
        \/ AdjustWeights(e)
        \/ feedback_cycle_end(e)

SpecMulti == InitMulti /\ [][NextMulti]_vars

(***************************************************************************)
(* Progress of a run that has entered generate, in the initial pipeline or *)
(* in the re-analysis of a feedback cycle.  The graph driver runs the next *)
(* node as soon as the one before has returned and the request handlers go *)
(* on as soon as the graph has ended, so every step of the program is      *)
(* taken once it can be.  generator_agent awaits                           *)
(* client.messages.create(model, max_tokens, temperature, messages): the   *)
(* call is given no timeout, the client is built as AsyncAnthropic() with  *)
(* no argument, and neither the node nor run_analysis wraps an await in    *)
(* asyncio.wait_for, so the node resumes only when the service answers or  *)
(* the client raises.                                                      *)
(***************************************************************************)
LiveData ==
    { [resources |-> <<R1>>, assignments |-> <<A1, A2>>],
      [resources |-> <<R1>>, assignments |-> <<A8>>],
      [resources |-> <<R1>>, assignments |-> <<A8, A9>>],
      [resources |-> <<R1, R2>>, assignments |-> <<A1, A3>>] }

\* the context generate is entered with: detect has found conflicts
GenerateContext(e, data, weights) ==
    Merge(detector_agent(consolidator_agent(
              Merge(create_initial_state(e),
                    [resources |-> data.resources,
                     assignments |-> data.assignments]))),
          [weights |-> weights])

InitLive ==
    /\ active = {"e1"}
    /\ source \in {[e \in ExecIds |-> d] : d \in LiveData}
    /\ node = [e \in ExecIds |-> IF e = "e1" THEN "generate" ELSE "idle"]
    /\ entry \in {[e \in ExecIds |-> IF e = "e1" THEN x ELSE "none"] :
                     x \in {"consolidate", "feedback"}}
    /\ \E weights \in WeightChoices :
          /\ entry["e1"] = "consolidate" => weights = Weights
          /\ state = [e \in ExecIds |->
                         IF e = "e1" THEN GenerateContext(e, source[e], weights)
                         ELSE NoState]
    /\ visited = [e \in ExecIds |->
                     IF e # "e1" THEN <<>>
                     ELSE IF entry[e] = "consolidate" THEN <<"consolidate", "detect">>
                     ELSE <<"feedback", "analyze_patterns", "adjust_weights",
                            "detect">>]
    /\ loopbacks = [e \in ExecIds |->
                       IF e = "e1" /\ entry[e] = "feedback" THEN 1 ELSE 0]
    /\ n_invokes = loopbacks
    /\ fb_input = [e \in ExecIds |-> None]
    /\ results = [e \in ExecIds |-> NoState]
    /\ fb_store = <<>>
    /\ response = [e \in ExecIds |-> <<>>]
    /\ prompt = [e \in ExecIds |-> <<>>]
    /\ gen_failed = [e \in ExecIds |-> FALSE]
    /\ errs_before = [e \in ExecIds |-> <<>>]
    /\ caller_ctx = [e \in ExecIds |-> NoState]

\* the request has been sent and the service does not answer it: the
\* coroutine of generator_agent stays suspended at its await
generator_silent(e) ==
    /\ node[e] = "generate"
    /\ Get(state[e], "conflicts", <<>>) # <<>>
    /\ node' = [node EXCEPT ![e] = "awaiting"]
    /\ UNCHANGED <<state, entry, fb_input, results, fb_store, response, source,
                   active, visited, loopbacks, prompt, gen_failed, errs_before,
                   n_invokes, caller_ctx>>

NextLive ==
    \E e \in ExecIds :
        \/ Generate(e)
        \/ generator_silent(e)
        \/ Rank(e)
        \/ analyze_resources_save(e)
        \/ feedback_cycle_end(e)

\* where each run stands: every step of the driver or of a handler changes it
position == <<node, visited, entry>>

DriverFairness ==
    \A e \in ExecIds :
        /\ WF_position(Generate(e))
        /\ WF_position(Rank(e))
        /\ WF_position(analyze_resources_save(e))
        /\ WF_position(feedback_cycle_end(e))

SpecLive == InitLive /\ [][NextLive]_vars /\ DriverFairness


(***************************************************************************)
(* Properties.                                                             *)
(***************************************************************************)
Conflicts(e) == Get(state[e], "conflicts", <<>>)
Solutions(e) == Get(state[e], "solutions", <<>>)
Ranked(e) == Get(state[e], "ranked_solutions", <<>>)
Errors(e) == Get(state[e], "errors", <<>>)
Iterations(st) == Get(st, "iterations", 0)
Trigger(st) == Get(st, "trigger_pattern_analysis", FALSE)

Ran(e, n) == \E i \in DOMAIN visited[e] : visited[e][i] = n
JustRan(e, n) == visited[e] # <<>> /\ Last(visited[e]) = n
NoRepeat(seq) == \A i, j \in DOMAIN seq : seq[i] = seq[j] => i = j

FailureMessages ==
    {"Generation failed: api error", "Generation failed: malformed response"}

\* C1: the step that runs detect leads to generate exactly when the conflict
\* list that pass produced is non-empty, and to END exactly when it is empty
C1_DetectBranch ==
    [][\A e \in ExecIds :
          (node[e] = "detect" /\ node'[e] # "detect")
          => /\ node'[e] \in {"generate", "END"}
             /\ (node'[e] = "generate") <=> (Len(state'[e].conflicts) > 0)
             /\ (node'[e] = "END") <=> (state'[e].conflicts = <<>>)
             /\ state'[e].conflicts =
                    sort_conflicts(detect_conflicts(
                        Get(state[e], "consolidated_resources", <<>>)))]_vars

\* a detect pass re-entered from the feedback cycle has gone on to generate
C1_Witness ==
    \E e \in ExecIds :
        /\ node[e] = "generate" /\ JustRan(e, "detect")
        /\ Ran(e, "adjust_weights") /\ Conflicts(e) # <<>>

C3_ContinueBranch ==
    [][\A e \in ExecIds :
          (node[e] = "adjust_weights" /\ node'[e] # "adjust_weights")
          => /\ node'[e] \in {"detect", "END"}
             /\ (node'[e] = "detect")
                  <=> (Iterations(state'[e]) < 3 /\ Trigger(state'[e]))]_vars

\* the loop-back taken on a state without an iterations key, and refused on a
\* state whose counter has reached 3 -- both by adjust_weights having set the
\* trigger
C3_Witness ==
    \E e \in ExecIds :
        /\ JustRan(e, "adjust_weights") /\ Trigger(state[e])
        /\ \/ node[e] = "detect" /\ "iterations" \notin DOMAIN state[e]
           \/ node[e] = "END" /\ Iterations(state[e]) = 3

Edges ==
    { <<"consolidate", "detect">>, <<"detect", "generate">>, <<"detect", "END">>,
      <<"generate", "rank">>, <<"rank", "END">>,
      <<"feedback", "analyze_patterns">>,
      <<"analyze_patterns", "adjust_weights">>,
      <<"adjust_weights", "detect">>, <<"adjust_weights", "END">> }

\* C5: a node that has run is followed only along one of the nine edges, and
\* within one invocation of the graph no node runs twice (the loop-back
\* included, the graph has no cycle a run could go round)
C5_OnlyTheseEdges ==
    [][\A e \in ExecIds :
          /\ (node[e] \in Nodes /\ node'[e] # node[e] /\ node'[e] # "failed")
             => <<node[e], node'[e]>> \in Edges
          /\ NoRepeat(visited'[e])]_vars

\* a feedback cycle that looped back and ran through to the end
C5_Witness ==
    \E e \in ExecIds :
        /\ node[e] = "END"
        /\ visited[e] = <<"feedback", "analyze_patterns", "adjust_weights",
                          "detect", "generate", "rank">>

\* C6: when the generation step reported an error, the context returned at
\* the terminal state has stage generation_failed
C6_FailedStage ==
    \A e \in ExecIds :
        (gen_failed[e] /\ node[e] = "END")
        => state[e].stage = "generation_failed"

\* C7: a failed generation call does not abort the run: one failure message is
\* appended to errors, solutions is emptied, total_solutions is 0, rank is the
\* next node and returns without raising, and the run ends with no ranked
\* solutions
C7_FailureAbsorbed ==
    \A e \in ExecIds :
        gen_failed[e]
        => /\ node[e] \in {"rank", "END"}
           /\ Len(Errors(e)) = Len(errs_before[e]) + 1
           /\ SubSeq(Errors(e), 1, Len(errs_before[e])) = errs_before[e]
           /\ Last(Errors(e)) \in FailureMessages
           /\ Solutions(e) = <<>>
           /\ "total_solutions" \in DOMAIN state[e]
           /\ state[e].total_solutions = 0
           /\ node[e] = "rank"
              => /\ ~ranker_raises(state[e])
                 /\ workflow_edge("rank", ranker_agent(state[e])) = "END"
           /\ node[e] = "END" => Ranked(e) = <<>>

\* a second failure on the same context, in a re-analysis that followed an
\* earlier ranking, ended
C7_Witness ==
    \E e \in ExecIds :
        /\ gen_failed[e] /\ node[e] = "END"
        /\ errs_before[e] # <<>> /\ Ran(e, "adjust_weights")

\* C8: a detect pass that produced no conflict ends the run at once; generate
\* has not run in that invocation and the final context holds no solution and
\* no ranked solution
C8_NoConflictsNoGenerator ==
    \A e \in ExecIds :
        /\ (JustRan(e, "detect") /\ Conflicts(e) = <<>>) => node[e] = "END"
        /\ (node[e] = "END" /\ Ran(e, "detect") /\ Conflicts(e) = <<>>)
           => /\ ~Ran(e, "generate")
              /\ Solutions(e) = <<>>
              /\ Ranked(e) = <<>>

\* an analysed execution whose feedback cycle looped back into a detect pass
\* that again found nothing
C8_Witness ==
    \E e \in ExecIds :
        /\ HasState(results[e]) /\ node[e] = "END"
        /\ visited[e] = <<"feedback", "analyze_patterns", "adjust_weights",
                          "detect">>
        /\ Conflicts(e) = <<>>

\* C9: at the terminal state of an invocation in which detect ran, stage is
\* ranking_complete when there were conflicts and generation succeeded (rank
\* then ran), and detection_complete when there were none
C9_ExitStage ==
    \A e \in ExecIds :
        (node[e] = "END" /\ Ran(e, "detect"))
        => /\ (Conflicts(e) # <<>> /\ ~gen_failed[e])
              => (state[e].stage = "ranking_complete" /\ Ran(e, "rank"))
           /\ Conflicts(e) = <<>> => state[e].stage = "detection_complete"

\* generation succeeded with no solution at all and the run ended through rank
C9_Witness ==
    \E e \in ExecIds :
        /\ node[e] = "END" /\ Ran(e, "rank") /\ ~gen_failed[e]
        /\ Conflicts(e) # <<>> /\ Solutions(e) = <<>>
        /\ state[e].stage = "ranking_complete"

\* C10: a feedback submitted for an execution id whose initial pipeline has
\* finished resumes that run: the step starts the feedback cycle at the
\* feedback node on the saved context, and the response says it continued
C10_FeedbackResumes ==
    [][\A e \in ExecIds :
          (Len(response'[e]) > Len(response[e]) /\ HasState(results[e]))
          => /\ node'[e] = "feedback"
             /\ state'[e] = results[e]
             /\ Last(response'[e]).continued]_vars

(***************************************************************************)
(* Isolation of runs.                                                      *)
(***************************************************************************)
\* everything the program holds for one execution id
PerRun(e) ==
    <<node[e], entry[e], visited[e], loopbacks[e], n_invokes[e], gen_failed[e],
      HasState(state[e]), IF HasState(state[e]) THEN state[e] ELSE [none |-> 0],
      HasState(results[e]), IF HasState(results[e]) THEN results[e] ELSE [none |-> 0],
      errs_before[e], prompt[e], Len(response[e])>>

\* the conflicts a run on the data of e alone detects
AloneConflicts(e) ==
    detector_agent(consolidator_agent(
        Merge(create_initial_state(e),
              [resources |-> source[e].resources,
               assignments |-> source[e].assignments]))).conflicts

\* C11: with the stages of several execution ids interleaved in any order, a
\* step of one run changes nothing held for another run, and each run's
\* context is the one it has when it runs alone: its own id, its own data,
\* the conflicts of its own data, and at the end of the initial pipeline the
\* default weights, no iteration and only its own errors
C11_RunsIsolated ==
    [][\A e1 \in ExecIds :
          PerRun(e1)' # PerRun(e1)
          => /\ \A e2 \in ExecIds \ {e1} : PerRun(e2)' = PerRun(e2)
             /\ HasState(state'[e1])
                => /\ state'[e1].execution_id = e1
                   /\ Get(state'[e1], "resources", source[e1].resources)
                          = source[e1].resources
                   /\ Get(state'[e1], "assignments", source[e1].assignments)
                          = source[e1].assignments
             /\ (node'[e1] = "END" /\ node[e1] # "END" /\ HasState(state'[e1]))
                => state'[e1].conflicts = AloneConflicts(e1)
             /\ (node'[e1] = "END" /\ node[e1] # "END"
                   /\ entry'[e1] = "consolidate")
                => /\ state'[e1].weights = Weights
                   /\ state'[e1].iterations = 0
                   /\ Len(state'[e1].errors) <= 1]_vars

\* both runs have ended, on different data and with different outcomes, after
\* their nodes were interleaved
C11_Witness ==
    /\ node["e1"] = "END" /\ node["e2"] = "END"
    /\ source["e1"] # source["e2"]
    /\ Conflicts("e1") # <<>> /\ Conflicts("e2") # Conflicts("e1")
    /\ gen_failed["e1"] /\ ~gen_failed["e2"]
    /\ Ran("e1", "adjust_weights") /\ state["e1"].weights # state["e2"].weights

Consolidated(e) == Get(state[e], "consolidated_resources", <<>>)

RECURSIVE SeqSum(_)
SeqSum(seq) == IF seq = <<>> THEN 0 ELSE Head(seq) + SeqSum(Tail(seq))

\* the weekdays of the calendar the project data lies in
Weekdays == {d \in 0..6 : d % 7 \notin {5, 6}}

\* the weekdays an assignment covers
Covered(a) == {d \in Weekdays : a.start_date <= d /\ d <= a.end_date}

\* the hours (in ticks) an assignment puts on day d
HoursOn(a, d) ==
    IF d \in Covered(a)
    THEN (a.total_work_hours * TicksPerHour) \div Cardinality(Covered(a))
    ELSE 0

\* the hours (in ticks) accumulated for a consolidated resource on day d
DayHours(resource, d) ==
    SeqSum([i \in DOMAIN resource.assignments |-> HoursOn(resource.assignments[i], d)])

FragmentHours(conflict) ==
    SeqSum([i \in DOMAIN conflict.tasks_involved |-> conflict.tasks_involved[i].hours])

\* C13: for every consolidated resource and weekday, detect emits a Conflict
\* for that (resource, date) exactly when the hours accumulated on the date
\* exceed the capacity, and a Conflict's allocated_hours (hundredths of an
\* hour) equals the sum of the hours of its tasks_involved fragments
C13_ConflictIffOverCapacity ==
    \A e \in ExecIds :
        JustRan(e, "detect")
        => /\ \A k \in DOMAIN Consolidated(e) : \A d \in Weekdays :
                  (\E i \in DOMAIN Conflicts(e) :
                       /\ Conflicts(e)[i].resource_id = Consolidated(e)[k].id
                       /\ Conflicts(e)[i].conflict_date = d)
                  <=> DayHours(Consolidated(e)[k], d)
                         > Consolidated(e)[k].capacity * TicksPerHour
           /\ \A i \in DOMAIN Conflicts(e) :
                  Conflicts(e)[i].allocated_hours * TicksPerHour
                      = 100 * FragmentHours(Conflicts(e)[i])

\* the exact overallocation percentage of a conflict is num / den
PercentNum(conflict) ==
    100 * (FragmentHours(conflict) - conflict.capacity_hours * TicksPerHour)

PercentDen(conflict) == conflict.capacity_hours * TicksPerHour

SeverityRank(severity) ==
    CASE severity = "CRITICAL" -> 4 [] severity = "HIGH" -> 3
      [] severity = "MEDIUM" -> 2 [] severity = "LOW" -> 1

\* the place of a conflict's resource in consolidated_resources
ResourcePlace(e, conflict) ==
    CHOOSE k \in DOMAIN Consolidated(e) : Consolidated(e)[k].id = conflict.resource_id

\* the first assignment of the resource that puts hours on the conflict's date:
\* dates enter the daily map in the order the assignments first reach them
FirstCover(e, conflict) ==
    LET assignments == Consolidated(e)[ResourcePlace(e, conflict)].assignments
    IN  CHOOSE i \in DOMAIN assignments :
            /\ conflict.conflict_date \in Covered(assignments[i])
            /\ \A j \in 1..(i - 1) : conflict.conflict_date \notin Covered(assignments[j])

\* conflict c was produced before conflict d
ProducedBefore(e, c, d) ==
    \/ ResourcePlace(e, c) < ResourcePlace(e, d)
    \/ /\ ResourcePlace(e, c) = ResourcePlace(e, d)
       /\ \/ FirstCover(e, c) < FirstCover(e, d)
          \/ /\ FirstCover(e, c) = FirstCover(e, d)
             /\ c.conflict_date < d.conflict_date

\* C15: the conflict list detect returns is in descending severity rank, within
\* a severity in descending overallocation percentage, and conflicts equal on
\* both keep the order they were produced in
C15_ConflictsSorted ==
    \A e \in ExecIds : \A i, j \in DOMAIN Conflicts(e) :
        i < j
        => LET c == Conflicts(e)[i]
               d == Conflicts(e)[j]
           IN  \/ SeverityRank(c.severity) > SeverityRank(d.severity)
               \/ /\ c.severity = d.severity
                  /\ c.overallocation_percent > d.overallocation_percent
               \/ /\ c.severity = d.severity
                  /\ c.overallocation_percent = d.overallocation_percent
                  /\ ProducedBefore(e, c, d)

\* three severities in one list, with two conflicts equal on both keys whose
\* production order is not their date order
C15_Witness ==
    \E e \in ExecIds :
        /\ JustRan(e, "detect")
        /\ Cardinality({Conflicts(e)[i].severity : i \in DOMAIN Conflicts(e)}) >= 2
        /\ \E i, j \in DOMAIN Conflicts(e) :
               /\ i < j
               /\ Conflicts(e)[i].severity = Conflicts(e)[j].severity
               /\ Conflicts(e)[i].overallocation_percent
                     = Conflicts(e)[j].overallocation_percent
               /\ Conflicts(e)[i].conflict_date > Conflicts(e)[j].conflict_date

(***************************************************************************)
(* Consolidation.                                                          *)
(***************************************************************************)
RawResources(e) == Get(state[e], "resources", <<>>)
RawAssignments(e) == Get(state[e], "assignments", <<>>)

\* an email without its surrounding blanks, in lower case
RECURSIVE Trimmed(_)
Trimmed(s) ==
    IF s = <<>> THEN s
    ELSE IF Head(s) = " " THEN Trimmed(Tail(s))
    ELSE IF s[Len(s)] = " " THEN Trimmed(SubSeq(s, 1, Len(s) - 1))
    ELSE s

Normalized(email) ==
    [i \in DOMAIN Trimmed(email) |->
        IF Trimmed(email)[i] = "A" THEN "a"
        ELSE IF Trimmed(email)[i] = "B" THEN "b" ELSE Trimmed(email)[i]]

\* the consolidated resources that hold an assignment of resource id rid
HoldersOf(e, rid) ==
    {k \in DOMAIN Consolidated(e) :
        \E i \in DOMAIN Consolidated(e)[k].assignments :
            Consolidated(e)[k].assignments[i].resource_id = rid}

\* C16: for any two raw resources whose emails are equal once lower-cased and
\* trimmed, every assignment that references either id lies under one single
\* consolidated resource; and there are never more consolidated resources
\* than raw ones
C16_SameEmailOneResource ==
    \A e \in ExecIds :
        Ran(e, "consolidate")
        => /\ Len(Consolidated(e)) <= Len(RawResources(e))
           /\ \A i, j \in DOMAIN RawResources(e) :
                  Normalized(RawResources(e)[i].email)
                      = Normalized(RawResources(e)[j].email)
                  => /\ Cardinality(HoldersOf(e, RawResources(e)[i].id)
                                      \cup HoldersOf(e, RawResources(e)[j].id)) <= 1
                     /\ \A a \in DOMAIN RawAssignments(e) :
                            RawAssignments(e)[a].resource_id
                                \in {RawResources(e)[i].id, RawResources(e)[j].id}
                            => \E k \in DOMAIN Consolidated(e) :
                                   \E x \in DOMAIN Consolidated(e)[k].assignments :
                                       Consolidated(e)[k].assignments[x]
                                           = RawAssignments(e)[a]

\* two records of one person, differing in case and blanks, each referenced by
\* an assignment, have been consolidated into one resource holding both
C16_Witness ==
    \E e \in ExecIds :
        /\ JustRan(e, "consolidate")
        /\ Len(RawResources(e)) = 2 /\ Len(Consolidated(e)) = 1
        /\ RawResources(e)[1].email # RawResources(e)[2].email
        /\ HoldersOf(e, RawResources(e)[1].id) = {1}
        /\ HoldersOf(e, RawResources(e)[2].id) = {1}

Occurrences(seq, x) == Cardinality({i \in DOMAIN seq : seq[i] = x})

KnownResource(e, rid) == \E i \in DOMAIN RawResources(e) : RawResources(e)[i].id = rid

\* C17: after consolidate an input assignment whose resource_id is that of a
\* raw resource lies in the assignments of exactly one consolidated resource,
\* as often as it is in the input (once for a record that is there once), and
\* an assignment whose resource_id matches no raw resource lies in none
C17_EachAssignmentOnce ==
    \A e \in ExecIds :
        Ran(e, "consolidate")
        => \A a \in DOMAIN RawAssignments(e) :
              LET assignment == RawAssignments(e)[a]
                  holders == {k \in DOMAIN Consolidated(e) :
                                 Occurrences(Consolidated(e)[k].assignments,
                                             assignment) > 0}
              IN  IF KnownResource(e, assignment.resource_id)
                  THEN /\ Cardinality(holders) = 1
                       /\ \A k \in holders :
                              Occurrences(Consolidated(e)[k].assignments, assignment)
                                  = Occurrences(RawAssignments(e), assignment)
                  ELSE holders = {}

\* assignments of a known and of an unknown resource id have been consolidated
C17_Witness ==
    \E e \in ExecIds :
        /\ JustRan(e, "consolidate")
        /\ Len(Consolidated(e)) = 2
        /\ \E a, b, c \in DOMAIN RawAssignments(e) :
               /\ a # b /\ RawAssignments(e)[a] # RawAssignments(e)[b]
               /\ KnownResource(e, RawAssignments(e)[a].resource_id)
               /\ KnownResource(e, RawAssignments(e)[b].resource_id)
               /\ ~KnownResource(e, RawAssignments(e)[c].resource_id)

\* the assignments consolidate skipped, and those detect skipped
SkippedUnknown(e) ==
    {a \in DOMAIN RawAssignments(e) :
        ~KnownResource(e, RawAssignments(e)[a].resource_id)}

SkippedNoWeekday(e) ==
    {<<k, i>> \in (DOMAIN Consolidated(e)) \X (1..MaxAssignments + 1) :
        /\ i \in DOMAIN Consolidated(e)[k].assignments
        /\ Covered(Consolidated(e)[k].assignments[i]) = {}}

\* C18: every assignment consolidate skipped for its unknown resource_id and
\* every assignment detect skipped for its range without a weekday has a
\* warning in the errors of the returned context
C18_SkipsRecorded ==
    \A e \in ExecIds :
        /\ Ran(e, "consolidate")
           => Len(Errors(e)) >= Cardinality(SkippedUnknown(e))
        /\ Ran(e, "detect")
           => Len(Errors(e)) >= Cardinality(SkippedUnknown(e))
                                   + Cardinality(SkippedNoWeekday(e))

\* C19: consolidate run again on the context a consolidate returned, or on
\* any later context of the run (same resources and assignments), gives the
\* same consolidated_resources, and so does a run on the initial context
C19_ConsolidateIdempotent ==
    \A e \in ExecIds :
        Ran(e, "consolidate")
        => /\ consolidator_agent(state[e]).consolidated_resources = Consolidated(e)
           /\ consolidator_agent(consolidator_agent(state[e])).consolidated_resources
                  = Consolidated(e)
           /\ consolidator_agent(
                  Merge(create_initial_state(e),
                        [resources |-> RawResources(e),
                         assignments |-> RawAssignments(e)])).consolidated_resources
                  = Consolidated(e)

\* a consolidation that merged two records and holds several assignments
C19_Witness ==
    \E e \in ExecIds :
        /\ JustRan(e, "consolidate")
        /\ Len(RawResources(e)) > Len(Consolidated(e))
        /\ \E k \in DOMAIN Consolidated(e) : Len(Consolidated(e)[k].assignments) >= 2

(***************************************************************************)
(* Ranking.                                                                *)
(***************************************************************************)
UnitWeights(w) ==
    /\ w.feasibility >= 0 /\ w.impact >= 0 /\ w.deadline >= 0 /\ w.simplicity >= 0
    /\ w.feasibility + w.impact + w.deadline + w.simplicity = 100

UnitScores(solutions) ==
    \A i \in DOMAIN solutions :
        /\ solutions[i].feasibility_score \in 0..100
        /\ solutions[i].complexity_score \in 0..100

\* C20: for solutions whose feasibility and complexity scores are in [0,1] and
\* weights that are four non-negative coefficients summing to 1.0, every rank
\* score the ranker computes is in [0,1] (thousandths: 0..1000), so that the
\* RankedSolution is accepted and the ranker returns
C20_ScoreInUnitInterval ==
    \A e \in ExecIds :
        (HasState(state[e]) /\ UnitWeights(Get(state[e], "weights", Weights))
           /\ UnitScores(Solutions(e)))
        => /\ node[e] # "failed"
           /\ \A i \in DOMAIN Ranked(e) :
                  /\ Ranked(e)[i].rank_score >= 0
                  /\ Ranked(e)[i].rank_score <= 1000

\* the ranker has returned a solution with the highest score there is, under
\* weights other than the default ones
C20_Witness ==
    \E e \in ExecIds :
        /\ JustRan(e, "rank") /\ node[e] = "END"
        /\ state[e].weights # Weights
        /\ Len(Ranked(e)) = 1
        /\ Ranked(e)[1].rank_score = 1000

\* a ranked solution without the two fields the ranker adds
AsSolution(ranked) ==
    [conflict_id |-> ranked.conflict_id,
     strategy |-> ranked.strategy,
     feasibility_score |-> ranked.feasibility_score,
     complexity_score |-> ranked.complexity_score,
     preserves_deadline |-> ranked.preserves_deadline]

\* the solutions of a list of ranked solutions that have rank score s, in order
WithScore(ranked, s) ==
    LET Has(r) == r.rank_score = s
        kept == SelectSeq(ranked, Has)
    IN  [i \in DOMAIN kept |-> AsSolution(kept[i])]

\* the solutions of the input list that the weights give the score s, in order
ScoredAs(solutions, weights, s) ==
    LET Has(x) == calculate_rank_score(x, weights) = s
    IN  SelectSeq(solutions, Has)

\* rank has returned on the context of e
RankReturned(e) == JustRan(e, "rank") /\ node[e] # "failed"

\* C21: the ranked_solutions list rank returns is in non-increasing rank_score
\* order, and the solutions of equal rank_score are in it in the order they
\* have in the input solutions list
C21_StableDescending ==
    \A e \in ExecIds :
        RankReturned(e)
        => /\ \A i, j \in DOMAIN Ranked(e) :
                  i < j => Ranked(e)[i].rank_score >= Ranked(e)[j].rank_score
           /\ \A s \in {Ranked(e)[i].rank_score : i \in DOMAIN Ranked(e)}
                        \cup {calculate_rank_score(Solutions(e)[i], state[e].weights) :
                                 i \in DOMAIN Solutions(e)} :
                  WithScore(Ranked(e), s)
                      = ScoredAs(Solutions(e), state[e].weights, s)

\* three different solutions ranked: the first of the input is not the first of
\* the result, and two that differ in their scores' parts tie and keep their order
C21_Witness ==
    \E e \in ExecIds :
        /\ RankReturned(e) /\ Len(Ranked(e)) = 3
        /\ AsSolution(Ranked(e)[1]) # Solutions(e)[1]
        /\ \E i, j \in DOMAIN Ranked(e) :
               /\ i < j
               /\ Ranked(e)[i].rank_score = Ranked(e)[j].rank_score
               /\ Ranked(e)[i].feasibility_score # Ranked(e)[j].feasibility_score
               /\ \E a, b \in DOMAIN Solutions(e) :
                      /\ a < b
                      /\ Solutions(e)[a] = AsSolution(Ranked(e)[i])
                      /\ Solutions(e)[b] = AsSolution(Ranked(e)[j])

NonNegative(w) ==
    w.feasibility >= 0 /\ w.impact >= 0 /\ w.deadline >= 0 /\ w.simplicity >= 0

\* C22: under any vector of non-negative weights, summing to 1.0 or not, the
\* step that runs rank returns: it ends the run with one ranked solution for
\* every input solution, each scored with the weights as given and carrying
\* them, and the weights of the context are as they were
C22_AnyWeightsAccepted ==
    [][\A e \in ExecIds :
          (node[e] = "rank" /\ visited'[e] = Append(visited[e], "rank")
             /\ NonNegative(Get(state[e], "weights", Weights)))
          => /\ node'[e] = "END"
             /\ Get(state'[e], "weights", Weights) = Get(state[e], "weights", Weights)
             /\ Len(Get(state'[e], "ranked_solutions", <<>>)) = Len(Solutions(e))
             /\ \A i \in DOMAIN Get(state'[e], "ranked_solutions", <<>>) :
                    LET r == state'[e].ranked_solutions[i]
                    IN  /\ r.weights = Get(state[e], "weights", Weights)
                        /\ r.rank_score
                               = calculate_rank_score(AsSolution(r), r.weights)]_vars

\* the weighted sum of the claim, in ten-thousandths: scores and weights are
\* hundredths, 1.0 is 100 and 0.3 is 30
WeightedSum(solution, w) ==
    solution.feasibility_score * w.feasibility
      + (100 - solution.complexity_score) * w.impact
      + (IF solution.preserves_deadline THEN 100 ELSE 30) * w.deadline
      + (100 - solution.complexity_score) * w.simplicity

\* score (thousandths) is sum (ten-thousandths) rounded to 3 decimals
RoundedTo3(score, sum) == 10 * score - sum \in -5..5

\* C23: for every solution and weight vector the rank score is
\* feasibility*w.feasibility + (1-complexity)*w.impact + d*w.deadline
\* + (1-complexity)*w.simplicity rounded to 3 decimals, d being 1.0 when the
\* solution preserves the deadline and 0.3 otherwise
C23_ScoreFormula ==
    \A e \in ExecIds :
        /\ HasState(state[e])
           => \A i \in DOMAIN Solutions(e) :
                  RoundedTo3(calculate_rank_score(Solutions(e)[i],
                                                  Get(state[e], "weights", Weights)),
                             WeightedSum(Solutions(e)[i],
                                         Get(state[e], "weights", Weights)))
        /\ \A i \in DOMAIN Ranked(e) :
               RoundedTo3(Ranked(e)[i].rank_score,
                          WeightedSum(Ranked(e)[i], Ranked(e)[i].weights))

\* rank has returned the score of a solution that misses the deadline, under
\* weights that count the deadline, the sum having digits beyond the third
C23_Witness ==
    \E e \in ExecIds :
        /\ RankReturned(e) /\ Len(Ranked(e)) = 1
        /\ ~Ranked(e)[1].preserves_deadline
        /\ Ranked(e)[1].weights.deadline > 0
        /\ Ranked(e)[1].weights # Weights
        /\ WeightedSum(Ranked(e)[1], Ranked(e)[1].weights) % 10 # 0

(***************************************************************************)
(* Two assignments at capacity, one range inside the other.                *)
(***************************************************************************)
\* the weekdays of the calendar that every assignment of the run covers
SharedWeekdays(e) ==
    {d \in 0..(MaxDay + 1) :
        /\ d % 7 \notin {5, 6}
        /\ \A i \in DOMAIN RawAssignments(e) :
               /\ RawAssignments(e)[i].start_date <= d
               /\ d <= RawAssignments(e)[i].end_date}

Terminated(e) ==
    \/ node[e] = "END" /\ entry[e] = "none"
    \/ node[e] = "failed"

IsPrefix(s, t) == Len(s) <= Len(t) /\ SubSeq(t, 1, Len(s)) = s

\* C26: within one invocation of the graph (visited holds the nodes it has
\* run), detect and adjust_weights have each run at most once, and what has
\* run after adjust_weights is detect, generate, rank in this order, or a
\* beginning of it: the run is then at none of the three feedback nodes again
C26_DetectOncePerInvocation ==
    \A e \in ExecIds :
        /\ Occurrences(visited[e], "detect") <= 1
        /\ Occurrences(visited[e], "adjust_weights") <= 1
        /\ \A i \in DOMAIN visited[e] :
               visited[e][i] = "adjust_weights"
               => /\ IsPrefix(SubSeq(visited[e], i + 1, Len(visited[e])),
                              <<"detect", "generate", "rank">>)
                  /\ node[e] \notin {"consolidate", "feedback", "analyze_patterns",
                                     "adjust_weights"}

\* the second feedback cycle of an execution id has looped back as the first
\* had, and its one detect pass has been followed by generate and rank to END
C26_Witness ==
    \E e \in ExecIds :
        /\ n_invokes[e] = 2 /\ loopbacks[e] = 2
        /\ node[e] = "END" /\ JustRan(e, "rank")
        /\ Occurrences(visited[e], "detect") = 1

(***************************************************************************)
(* Severity against the stored percentage.                                 *)
(***************************************************************************)
\* the tier of a percentage given in tenths of a percent
TierOfTenths(p) ==
    IF p < 250 THEN "LOW"
    ELSE IF p < 500 THEN "MEDIUM"
    ELSE IF p < 1000 THEN "HIGH"
    ELSE "CRITICAL"

\* C27: in every conflict detect emits, the severity is the tier (<25 LOW,
\* [25,50) MEDIUM, [50,100) HIGH, >=100 CRITICAL) of the conflict's stored
\* overallocation_percent, the percentage rounded to one decimal
C27_SeverityMatchesStoredPercent ==
    \A e \in ExecIds : \A i \in DOMAIN Conflicts(e) :
        Conflicts(e)[i].severity
            = TierOfTenths(Conflicts(e)[i].overallocation_percent)

(***************************************************************************)
(* What a stage leaves alone.                                              *)
(***************************************************************************)
DetectWrites ==
    {"conflicts", "total_conflicts", "critical_conflicts", "stage", "timestamps"}

DetectKeeps ==
    {"consolidated_resources", "weights", "iterations", "errors",
     "feedback_history", "solutions", "total_solutions", "ranked_solutions"}

\* C28: the step that runs detect changes only conflicts, total_conflicts,
\* critical_conflicts, stage and the detection timestamp: every other key of
\* the context -- consolidated_resources, weights, iterations, errors,
\* feedback_history, solutions, total_solutions, ranked_solutions among them
\* -- is in the returned context exactly when it was in the input context,
\* with the same value, and the other timestamps are kept
C28_DetectFrame ==
    [][\A e \in ExecIds :
          (node[e] = "detect" /\ visited'[e] = Append(visited[e], "detect"))
          => /\ DOMAIN state'[e] = DOMAIN state[e] \cup DetectWrites
             /\ \A k \in DOMAIN state[e] \ DetectWrites :
                    state'[e][k] = state[e][k]
             /\ \A k \in DetectKeeps :
                    /\ (k \in DOMAIN state'[e]) <=> (k \in DOMAIN state[e])
                    /\ k \in DOMAIN state[e] => state'[e][k] = state[e][k]
             /\ state'[e].timestamps
                    = Get(state[e], "timestamps", {}) \cup {"detection_complete"}]_vars

\* detect has run again after a feedback loop-back, on a context that holds
\* the solutions and the ranking of the earlier pass, adjusted weights and an
\* error, and has returned them
C28_Witness ==
    \E e \in ExecIds :
        /\ JustRan(e, "detect") /\ Ran(e, "adjust_weights")
        /\ state[e].stage = "detection_complete"
        /\ Solutions(e) # <<>> /\ Ranked(e) # <<>>
        /\ state[e].weights # Weights
        /\ Errors(e) # <<>>
        /\ Len(state[e].feedback_history) >= 2

\* C29: over every step of a run the errors list of its context only grows:
\* the list after the step has the list before it as a prefix, and a step
\* that lengthens it is the step of the generate stage, which adds one entry
C29_ErrorsOnlyGrow ==
    [][\A e \in ExecIds :
          /\ IsPrefix(Get(state[e], "errors", <<>>), Get(state'[e], "errors", <<>>))
          /\ Get(state'[e], "errors", <<>>) # Get(state[e], "errors", <<>>)
             => /\ node[e] = "generate"
                /\ visited'[e] = Append(visited[e], "generate")
                /\ Len(Get(state'[e], "errors", <<>>))
                       = Len(Get(state[e], "errors", <<>>)) + 1]_vars

\* a run whose generation failed in two passes holds both messages, in order,
\* after a later pass has gone through detect, generate and rank with success
C29_Witness ==
    \E e \in ExecIds :
        /\ node[e] = "END" /\ JustRan(e, "rank") /\ ~gen_failed[e]
        /\ Len(Errors(e)) = 2
        /\ Errors(e)[1] # Errors(e)[2]
        /\ Ranked(e) # <<>>

\* C30: the step in which rank returns neither drops nor invents a solution:
\* ranked_solutions has the length of solutions and, rank_score and weights
\* left out, holds every solution as often as solutions does; solutions is
\* as it was; and an empty solutions list gives an empty ranked_solutions
\* list with stage ranking_complete, no exception and no new error
C30_RankKeepsSolutions ==
    [][\A e \in ExecIds :
          (node[e] = "rank" /\ visited'[e] = Append(visited[e], "rank"))
          => /\ node'[e] # "failed"
                => LET solutions == Solutions(e)
                       ranked == state'[e].ranked_solutions
                       stripped == [i \in DOMAIN ranked |-> AsSolution(ranked[i])]
                   IN  /\ Len(ranked) = Len(solutions)
                       /\ \A i \in DOMAIN solutions :
                              Occurrences(stripped, solutions[i])
                                  = Occurrences(solutions, solutions[i])
                       /\ Get(state'[e], "solutions", <<>>) = solutions
             /\ Solutions(e) = <<>>
                => /\ node'[e] = "END"
                   /\ state'[e].ranked_solutions = <<>>
                   /\ state'[e].stage = "ranking_complete"
                   /\ Get(state'[e], "errors", <<>>) = Errors(e)]_vars

\* rank has returned three ranked solutions for a list that holds one solution
\* twice, in another order than the input had
C30_Witness ==
    \E e \in ExecIds :
        /\ RankReturned(e) /\ Len(Solutions(e)) = 3 /\ Len(Ranked(e)) = 3
        /\ Solutions(e)[1] = Solutions(e)[3]
        /\ Solutions(e)[1] # Solutions(e)[2]
        /\ AsSolution(Ranked(e)[1]) = Solutions(e)[2]

\* C31: generate is entered only on a context whose conflict list is not
\* empty; the step in which generate runs therefore adds no 'No conflicts to
\* generate solutions' error, and the prompt it sends holds the first
\* MaxPromptConflicts conflicts of the list as detect ordered it, or the whole
\* list when that is shorter
C31_GenerateOnlyWithConflicts ==
    [][\A e \in ExecIds :
          /\ node'[e] = "generate"
             => /\ HasState(state'[e])
                /\ Get(state'[e], "conflicts", <<>>) # <<>>
          /\ (node[e] = "generate" /\ visited'[e] = Append(visited[e], "generate"))
             => /\ Conflicts(e) # <<>>
                /\ Occurrences(Get(state'[e], "errors", <<>>),
                               "No conflicts to generate solutions")
                       = Occurrences(Errors(e),
                                     "No conflicts to generate solutions")
                /\ Len(prompt'[e]) <= MaxPromptConflicts
                /\ IsPrefix(prompt'[e], Conflicts(e))
                /\ \/ prompt'[e] = Conflicts(e)
                   \/ Len(prompt'[e]) = MaxPromptConflicts]_vars

\* generate has run on more conflicts than one prompt takes, a later day of
\* higher severity sorted ahead of earlier days: the prompt holds the first
\* MaxPromptConflicts of them and not the last one
C31_Witness ==
    \E e \in ExecIds :
        /\ JustRan(e, "generate")
        /\ Len(Conflicts(e)) > MaxPromptConflicts
        /\ Len(prompt[e]) = MaxPromptConflicts
        /\ prompt[e][1] = Conflicts(e)[1]
        /\ prompt[e][1].conflict_date > prompt[e][2].conflict_date
        /\ \A i \in DOMAIN prompt[e] : prompt[e][i] # Last(Conflicts(e))

\* the weights a context is ranked with
ActiveWeights(st) == Get(st, "weights", Weights)

\* C32: a RankedSolution holds the values of the weights it was scored with,
\* not the context's active weights: the step in which rank returns stores
\* with every ranked solution the weights active in that step and the score
\* they give; every other step of the thread, adjust_weights changing the
\* active weights included, leaves the ranked solutions of the context as they
\* were; and the ranked solutions of a saved result stay as saved through
\* every later adjust_weights and every later ranking
C32_WeightsSnapshot ==
    [][\A e \in ExecIds :
          /\ (node[e] = "rank" /\ visited'[e] = Append(visited[e], "rank")
                /\ node'[e] # "failed")
             => \A i \in DOMAIN state'[e].ranked_solutions :
                    LET ranked == state'[e].ranked_solutions[i]
                    IN  /\ ranked.weights = ActiveWeights(state[e])
                        /\ ranked.rank_score
                               = calculate_rank_score(AsSolution(ranked),
                                                      ranked.weights)
          /\ (HasState(state[e]) /\ node[e] # "rank")
             => Get(state'[e], "ranked_solutions", <<>>) = Ranked(e)
          /\ HasState(results[e])
             => /\ HasState(results'[e])
                /\ Get(results'[e], "ranked_solutions", <<>>)
                       = Get(results[e], "ranked_solutions", <<>>)]_vars

\* a saved result ranked under the default weights, and the thread of the
\* same execution ranked again, after adjust_weights, under other weights: the
\* same solution has two scores, each with the weights that gave it
C32_Witness ==
    \E e \in ExecIds :
        /\ HasState(results[e]) /\ RankReturned(e)
        /\ Ran(e, "adjust_weights")
        /\ ActiveWeights(state[e]) # Weights
        /\ \E i \in DOMAIN results[e].ranked_solutions, j \in DOMAIN Ranked(e) :
              /\ AsSolution(results[e].ranked_solutions[i]) = AsSolution(Ranked(e)[j])
              /\ results[e].ranked_solutions[i].weights = Weights
              /\ Ranked(e)[j].weights = ActiveWeights(state[e])
              /\ results[e].ranked_solutions[i].rank_score # Ranked(e)[j].rank_score

\* the Monday-to-Friday dates in the range of an assignment
RangeWeekdays(a) == {d \in a.start_date..a.end_date : d % 7 \notin {5, 6}}

\* the even share (in ticks) of an assignment's hours that falls on day d
EvenShare(a, d) ==
    IF d \in RangeWeekdays(a)
    THEN (a.total_work_hours * TicksPerHour) \div Cardinality(RangeWeekdays(a))
    ELSE 0

\* the hours (in ticks) of the fragments of a day that carry a task's key
KeyHours(day, project_id, task_id) ==
    SeqSum([i \in DOMAIN day.tasks |->
               IF day.tasks[i].project_id = project_id
                  /\ day.tasks[i].task_id = task_id
               THEN day.tasks[i].hours ELSE 0])

\* the per-day table detect builds for a consolidated resource
DailyOf(resource) == daily_allocation(resource.assignments, <<>>)

\* C33: in the per-day table detect builds for a resource, every date is a
\* Monday-to-Friday date, and the fragments a day holds for a task are the even
\* shares of the assignments of that task whose range holds the day; summed
\* over the days they give the total_work_hours of those assignments that have
\* a weekday in range, an assignment without one (start after end included)
\* adding nothing; and no conflict is dated on a Saturday or Sunday
C33_EvenWeekdaySpread ==
    \A e \in ExecIds :
        JustRan(e, "detect")
        => /\ \A k \in DOMAIN Consolidated(e) :
                  LET assignments == Consolidated(e)[k].assignments
                      daily == DailyOf(Consolidated(e)[k])
                  IN  /\ \A i \in DOMAIN daily : daily[i].date % 7 \notin {5, 6}
                      /\ \A i, j \in DOMAIN daily :
                             daily[i].date = daily[j].date => i = j
                      /\ \A a \in DOMAIN assignments :
                             LET pid == assignments[a].project_id
                                 tid == assignments[a].task_id
                                 Same(x) == x.project_id = pid /\ x.task_id = tid
                                 same == SelectSeq(assignments, Same)
                             IN  /\ \A i \in DOMAIN daily :
                                        KeyHours(daily[i], pid, tid)
                                            = SeqSum([j \in DOMAIN same |->
                                                         EvenShare(same[j], daily[i].date)])
                                 /\ SeqSum([i \in DOMAIN daily |->
                                               KeyHours(daily[i], pid, tid)])
                                        = SeqSum([j \in DOMAIN same |->
                                                     IF RangeWeekdays(same[j]) = {} THEN 0
                                                     ELSE same[j].total_work_hours
                                                              * TicksPerHour])
                      /\ \A i \in DOMAIN daily :
                             daily[i].total_hours
                                 = SeqSum([j \in DOMAIN daily[i].tasks |->
                                              daily[i].tasks[j].hours])
           /\ \A i \in DOMAIN Conflicts(e) :
                  Conflicts(e)[i].conflict_date % 7 \notin {5, 6}

\* detect has run on a resource with an assignment that runs backwards, one
\* that lies in a weekend and one that runs over a weekend: there is a
\* conflict on the Friday and on the Monday after, and none in between
C33_Witness ==
    \E e \in ExecIds :
        /\ JustRan(e, "detect")
        /\ \E k \in DOMAIN Consolidated(e) :
              LET assignments == Consolidated(e)[k].assignments
              IN  /\ \E a \in DOMAIN assignments :
                         assignments[a].start_date > assignments[a].end_date
                  /\ \E a \in DOMAIN assignments :
                         /\ assignments[a].start_date <= assignments[a].end_date
                         /\ RangeWeekdays(assignments[a]) = {}
                  /\ \E a \in DOMAIN assignments :
                         {4, 5, 6, 7} \subseteq
                             assignments[a].start_date..assignments[a].end_date
        /\ {Conflicts(e)[i].conflict_date : i \in DOMAIN Conflicts(e)} = {3, 4, 7, 8}

\* C34: once detect has run in an invocation, total_conflicts is the length
\* of the conflicts list of the context and critical_conflicts is the number
\* of its conflicts of severity CRITICAL, which is at most total_conflicts
C34_ConflictCounts ==
    \A e \in ExecIds :
        (Ran(e, "detect") /\ HasState(state[e]))
        => /\ state[e].total_conflicts = Len(Conflicts(e))
           /\ state[e].critical_conflicts
                  = Occurrences([i \in DOMAIN Conflicts(e) |->
                                    Conflicts(e)[i].severity], "CRITICAL")
           /\ state[e].critical_conflicts <= state[e].total_conflicts
           /\ state[e].critical_conflicts >= 0

\* detect has just returned a list that holds CRITICAL conflicts and conflicts
\* of a lower severity
C34_Witness ==
    \E e \in ExecIds :
        /\ JustRan(e, "detect")
        /\ state[e].total_conflicts = Len(Conflicts(e))
        /\ state[e].critical_conflicts > 0
        /\ state[e].critical_conflicts < state[e].total_conflicts
        /\ \E i \in DOMAIN Conflicts(e) : Conflicts(e)[i].severity = "MEDIUM"

====
